---- MODULE Spec2Model ----
(***************************************************************************)
(* Query orchestration pipeline of the traffic-accident consultation bot   *)
(* (django_app/accident_advisor/main/services/optimized_ai_bot.py):        *)
(* FastClassifier, HybridRAGSystem, SessionBasedConversationManager and    *)
(* OptimizedTrafficAccidentBot.process_query.                              *)
(*                                                                         *)
(* Text.  A Python str is a sequence of characters.  TLA+ strings are      *)
(* ASCII, so every character is one token: an ASCII character is itself, a *)
(* Hangul syllable is its jamo romanisation ("gwa" for U+ACFC; a one-letter*)
(* romanisation gets a trailing "_", so it differs from every ASCII        *)
(* letter).  Substring tests, slices and lengths are those of the Python   *)
(* string, character for character.                                        *)
(***************************************************************************)
EXTENDS Naturals, Sequences, FiniteSets, TLC

VARIABLES
    model_id,          \* FastClassifier.model_id: FINETUNED_MODEL_ID is set
    search_cache,      \* HybridRAGSystem._search_cache: key -> context string
    search_stats,      \* HybridRAGSystem.search_stats: the four counters
    session_chains,    \* session_id -> ConversationChain (memory, prompt)
    session_metadata,  \* session_id -> metadata dict
    total_requests,    \* OptimizedTrafficAccidentBot.total_requests
    now,               \* time.time(), in seconds
    self_query_retrievers, \* categories that have a cached SelfQueryRetriever
    collections,       \* the vector store: collection name -> its documents
    total_processing_time, \* OptimizedTrafficAccidentBot.total_processing_time
    chat_messages,     \* the ChatMessage rows, in the order of their creation
    requests,          \* the send_message requests, in the order of arrival
    collection_cache,  \* VectorDBManager._collection_cache of the indexer
    source_documents,  \* the documents of the metadata files, by category
    _sessions,         \* UnifiedMemoryManager._sessions: session_id -> UnifiedMemory
    ret                \* the last call: its operation, arguments and result

\* The state of the views and the consumers, and the state of the indexer.
web_vars == <<chat_messages, requests, _sessions>>
index_vars == <<collection_cache, source_documents>>

vars == <<model_id, search_cache, search_stats, self_query_retrievers, collections,
          session_chains,
          session_metadata, total_requests, total_processing_time, now, ret,
          web_vars, index_vars>>

----------------------------------------------------------------------------
(* Python str operations *)

\* The empty str.
EmptyText == << >>

\* Python None.
None == "None"

\* s[:n]
Take(s, n) == SubSeq(s, 1, IF n < Len(s) THEN n ELSE Len(s))

\* kw in s  (substring test; the empty str is in every str)
Contains(s, kw) ==
    \E i \in 1..(Len(s) + 1) :
        /\ i + Len(kw) - 1 <= Len(s)
        /\ \A j \in 1..Len(kw) : s[i + j - 1] = kw[j]

\* s.startswith(p)
StartsWith(s, p) == Len(p) <= Len(s) /\ \A j \in 1..Len(p) : s[j] = p[j]

UpperLetters ==
    <<"A","B","C","D","E","F","G","H","I","J","K","L","M",
      "N","O","P","Q","R","S","T","U","V","W","X","Y","Z">>
LowerLetters ==
    <<"a","b","c","d","e","f","g","h","i","j","k","l","m",
      "n","o","p","q","r","s","t","u","v","w","x","y","z">>

\* One character of s.lower(): ASCII capitals change, Hangul has no case.
LowerChar(c) ==
    IF \E i \in 1..Len(UpperLetters) : UpperLetters[i] = c
    THEN LowerLetters[CHOOSE i \in 1..Len(UpperLetters) : UpperLetters[i] = c]
    ELSE c

\* s.lower()
Lower(s) == [i \in 1..Len(s) |-> LowerChar(s[i])]

\* \s of the re module and the characters str.strip() removes.
IsSpace(c) == c \in {" ", "\n", "\t", "\r"}

\* \d
IsDigit(c) == c \in {"0","1","2","3","4","5","6","7","8","9"}

\* s.strip()
Strip(s) ==
    IF \A i \in 1..Len(s) : IsSpace(s[i]) THEN EmptyText
    ELSE LET a == CHOOSE i \in 1..Len(s) :
                      ~IsSpace(s[i]) /\ \A j \in 1..(i-1) : IsSpace(s[j])
             b == CHOOSE i \in 1..Len(s) :
                      ~IsSpace(s[i]) /\ \A j \in (i+1)..Len(s) : IsSpace(s[j])
         IN  SubSeq(s, a, b)

\* re.sub(r'\s+', '', s)
RECURSIVE RemoveSpaces(_)
RemoveSpaces(s) ==
    IF s = << >> THEN << >>
    ELSE IF IsSpace(s[1]) THEN RemoveSpaces(Tail(s))
    ELSE <<s[1]>> \o RemoveSpaces(Tail(s))

\* str(n) for a natural number
RECURSIVE Digits(_)
Digits(n) ==
    LET d == <<"0","1","2","3","4","5","6","7","8","9">>[(n % 10) + 1]
    IN  IF n < 10 THEN <<d>> ELSE Digits(n \div 10) \o <<d>>

\* c * n: a str of n copies of the character c
Repeat(c, n) == [i \in 1..n |-> c]

----------------------------------------------------------------------------
(* FastClassifier *)

Categories == {"accident", "precedent", "law", "term", "general"}

\* The categories of keyword_patterns, in the dict's insertion order.
KeywordCategories == <<"accident", "precedent", "law", "term">>

keyword_patterns ==
    [accident |-> [
        high |-> <<
            <<"sa", "go">>,   \* 사고
            <<"chung", "dol">>,   \* 충돌
            <<"jeob", "chog">>,   \* 접촉
            <<"gwa", "sil", "bi", "yul">>,   \* 과실비율
            <<"gwa", "sil">>,   \* 과실
            <<"bi", "yul">>   \* 비율
          >>,
        medium |-> <<
            <<"gyo", "cha", "ro">>,   \* 교차로
            <<"sin", "ho">>,   \* 신호
            <<"jwa", "hoe", "jeon">>,   \* 좌회전
            <<"u_", "hoe", "jeon">>,   \* 우회전
            <<"jig", "jin">>,   \* 직진
            <<"hu", "jin">>,   \* 후진
            <<"ju", "cha">>   \* 주차
          >>,
        low |-> <<
            <<"cha", "ryang">>,   \* 차량
            <<"ja", "dong", "cha">>,   \* 자동차
            <<"un", "jeon">>,   \* 운전
            <<"do", "ro">>,   \* 도로
            <<"A", "cha", "ryang">>,   \* A차량
            <<"B", "cha", "ryang">>   \* B차량
          >>
     ],
     precedent |-> [
        high |-> <<
            <<"pan", "rye">>,   \* 판례
            <<"dae", "beob", "won">>,   \* 대법원
            <<"go", "deung", "beob", "won">>,   \* 고등법원
            <<"ji", "bang", "beob", "won">>,   \* 지방법원
            <<"sa", "geon", "beon", "ho">>   \* 사건번호
          >>,
        medium |-> <<
            <<"beob", "won">>,   \* 법원
            <<"jae", "pan">>,   \* 재판
            <<"so", "song">>,   \* 소송
            <<"gyeol", "jeong">>,   \* 결정
            <<"go", "beob">>,   \* 고법
            <<"ji", "bang", "beob", "won">>,   \* 지방법원
            <<"go", "deung", "beob", "won">>,   \* 고등법원
            <<"gwan", "ryeon", "doen">>,   \* 관련된
            <<"gwan", "ryeon">>,   \* 관련
            <<"chaj", "a_">>,   \* 찾아
            <<"geom", "saeg">>   \* 검색
          >>,
        low |-> <<
            <<"sa", "geon">>,   \* 사건
            <<"gyeol", "gwa">>,   \* 결과
            <<"2", "0">>,   \* 20
            <<"1", "9">>,   \* 19
            <<"su", "won">>,   \* 수원
            <<"seo", "ul">>,   \* 서울
            <<"bu", "san">>,   \* 부산
            <<"i_", "wa">>,   \* 이와
            <<"hae", "dang">>   \* 해당
          >>
     ],
     law |-> [
        high |-> <<
            <<"do", "ro", "gyo", "tong", "beob">>,   \* 도로교통법
            <<"beob", "ryul">>,   \* 법률
            <<"jo", "mun">>,   \* 조문
            <<"beob", "ryeong">>   \* 법령
          >>,
        medium |-> <<
            <<"je">>,   \* 제
            <<"jo">>,   \* 조
            <<"hang">>,   \* 항
            <<"gyu", "jeong">>,   \* 규정
            <<"wi", "ban">>   \* 위반
          >>,
        low |-> <<
            <<"beob">>,   \* 법
            <<"gyu", "chig">>,   \* 규칙
            <<"cheo", "beol">>   \* 처벌
          >>
     ],
     term |-> [
        high |-> <<
            <<"jeong", "ui">>,   \* 정의
            <<"ui", "mi">>,   \* 의미
            <<"tteus">>,   \* 뜻
            <<"seol", "myeong">>,   \* 설명
            <<"mu", "eos">>   \* 무엇
          >>,
        medium |-> <<
            <<"yong", "eo">>,   \* 용어
            <<"gae", "nyeom">>,   \* 개념
            <<"mal">>   \* 말
          >>,
        low |-> <<
            <<"i_", "ran">>,   \* 이란
            <<"ra", "neun">>   \* 라는
          >>
     ] ]

\* The weight of one tier's keywords found in the (lower-cased) input.
RECURSIVE TierScore(_, _, _)
TierScore(user_input, keywords, weight) ==
    IF keywords = << >> THEN 0
    ELSE (IF Contains(user_input, Head(keywords)) THEN weight ELSE 0)
         + TierScore(user_input, Tail(keywords), weight)

CategoryScore(user_input, category) ==
    LET patterns == keyword_patterns[category]
    IN  TierScore(user_input, patterns.high, 3)
        + TierScore(user_input, patterns.medium, 2)
        + TierScore(user_input, patterns.low, 1)

\* _calculate_keyword_scores: the dict holds only the categories that scored.
calculate_keyword_scores(user_input) ==
    LET score == [i \in 1..Len(KeywordCategories) |->
                      CategoryScore(user_input, KeywordCategories[i])]
        scored == {i \in 1..Len(KeywordCategories) : score[i] > 0}
    IN  [c \in {KeywordCategories[i] : i \in scored} |->
             score[CHOOSE i \in scored : KeywordCategories[i] = c]]

\* max(category_scores, key=category_scores.get): the first key, in insertion
\* order, that has the greatest score.
BestCategory(category_scores) ==
    LET idx == {i \in 1..Len(KeywordCategories) :
                    KeywordCategories[i] \in DOMAIN category_scores}
        best == CHOOSE i \in idx :
                    /\ \A j \in idx : category_scores[KeywordCategories[j]]
                                          <= category_scores[KeywordCategories[i]]
                    /\ \A j \in idx : j < i =>
                           category_scores[KeywordCategories[j]]
                               < category_scores[KeywordCategories[i]]
    IN  KeywordCategories[best]

RECURSIVE SumScores(_, _)
SumScores(category_scores, i) ==
    IF i > Len(KeywordCategories) THEN 0
    ELSE (IF KeywordCategories[i] \in DOMAIN category_scores
          THEN category_scores[KeywordCategories[i]] ELSE 0)
         + SumScores(category_scores, i + 1)

\* confidence_threshold = 0.65 as the fraction 65 / 100
confidence_threshold_num == 65
confidence_threshold_den == 100
min_score_threshold == 4
\* len(user_input.strip()) > 10 before the fine-tuned model is asked
finetuned_min_length == 10

\* confidence >= confidence_threshold, with confidence = max_score / total
ConfidenceAtLeast(max_score, total_scores) ==
    IF total_scores > 0
    THEN max_score * confidence_threshold_den >= confidence_threshold_num * total_scores
    ELSE FALSE

\* The characters of a category name, to compare a model's answer with.
CategoryText(c) ==
    CASE c = "accident"  -> <<"a","c","c","i","d","e","n","t">>
      [] c = "precedent" -> <<"p","r","e","c","e","d","e","n","t">>
      [] c = "law"       -> <<"l","a","w">>
      [] c = "term"      -> <<"t","e","r","m">>
      [] c = "general"   -> <<"g","e","n","e","r","a","l">>

\* What the remote fine-tuned model can do with one request: answer with some
\* text, answer with no content (message.content is None), or fail (an error,
\* a timeout).
RemoteError == [kind |-> "error", content |-> << >>]
RemoteNone == [kind |-> "none", content |-> << >>]
RemoteAnswer(content) == [kind |-> "answer", content |-> content]

Raised == "raised"

\* _classify_with_finetuned_model: the answer stripped and lower-cased if it
\* is a category, 'general' if it is not; an error of the call, or .strip()
\* of a None content, raises.
classify_with_finetuned_model(remote) ==
    IF remote.kind # "answer" THEN Raised
    ELSE LET category == Lower(Strip(remote.content))
         IN  IF \E c \in Categories : CategoryText(c) = category
             THEN CHOOSE c \in Categories : CategoryText(c) = category
             ELSE "general"

\* classify without the try/except around its second stage: what the remote
\* call raises leaves classify.
classify_without_except(user_input, configured, remote) ==
    LET category_scores == calculate_keyword_scores(Lower(user_input))
    IN  IF DOMAIN category_scores # {}
        THEN IF /\ ConfidenceAtLeast(category_scores[BestCategory(category_scores)],
                                      SumScores(category_scores, 1))
                /\ category_scores[BestCategory(category_scores)] >= min_score_threshold
             THEN BestCategory(category_scores)
             ELSE "general"
        ELSE IF configured /\ Len(Strip(user_input)) > finetuned_min_length
        THEN classify_with_finetuned_model(remote)
        ELSE "general"

\* FastClassifier.classify.  configured: self.model_id is set.
classify(user_input, configured, remote) ==
    LET category_scores == calculate_keyword_scores(Lower(user_input))
        best_category == BestCategory(category_scores)
        max_score == category_scores[best_category]
        total_scores == SumScores(category_scores, 1)
        confident == ConfidenceAtLeast(max_score, total_scores)
        second_stage ==
            IF configured /\ Len(Strip(user_input)) > finetuned_min_length
            THEN LET category == classify_with_finetuned_model(remote)
                 IN  IF category = Raised THEN "general" ELSE category
            ELSE "general"
    IN  IF DOMAIN category_scores # {}
        THEN IF confident /\ max_score >= min_score_threshold
                 THEN best_category
             ELSE IF ~confident \/ max_score < min_score_threshold
                 THEN "general"
             ELSE second_stage
        ELSE second_stage

\* The remote model is called by classify(user_input) at all.
CallsFinetuned(user_input, configured) ==
    /\ DOMAIN calculate_keyword_scores(Lower(user_input)) = {}
    /\ configured
    /\ Len(Strip(user_input)) > finetuned_min_length

\* context_keywords of classify_with_context
context_keywords(previous_category) ==
    LET common == << <<"gwan", "ryeon">>,   \* 관련
                     <<"i_", "geos">>,      \* 이것
                     <<"i_", "geo">>,       \* 이거
                     <<"hae", "dang">>,     \* 해당
                     <<"wi">> >>            \* 위
    IN  IF previous_category = "precedent"
        THEN common \o << <<"chaj", "a_">>,     \* 찾아
                          <<"geom", "saeg">> >> \* 검색
        ELSE common

\* FastClassifier.classify_with_context
classify_with_context(user_input, previous_category, configured, remote) ==
    LET primary_result == classify(user_input, configured, remote)
    IN  IF /\ primary_result = "general"
           /\ previous_category # None
           /\ previous_category \in {"accident", "precedent", "law", "term"}
           /\ TierScore(Lower(user_input), context_keywords(previous_category), 2) >= 2
        THEN previous_category
        ELSE primary_result

----------------------------------------------------------------------------
(* HybridRAGSystem: citation extraction and matching *)

\* [다가나도마바사아자차카타파하]
ChamberLetters == {"da", "ga", "na", "do", "ma", "ba", "sa", "a_", "ja",
                   "cha", "ka", "ta", "pa", "ha"}

\* The patterns of _extract_case_number, in order: a literal court prefix,
\* whether \s* follows it, and the fewest digits of the year (\d{4}, \d{2,4}).
CasePatterns == <<
    [prefix |-> <<"dae", "beob", "won">>, spaces |-> TRUE, min_digits |-> 4],
    [prefix |-> <<"seo", "ul", "go", "beob">>, spaces |-> TRUE, min_digits |-> 4],
    [prefix |-> <<"seo", "ul", "go", "deung", "beob", "won">>, spaces |-> TRUE, min_digits |-> 4],
    [prefix |-> <<"seo", "ul", "jung", "ang", "ji", "bang", "beob", "won">>, spaces |-> TRUE, min_digits |-> 4],
    [prefix |-> <<"seo", "ul", "ji", "bang", "beob", "won">>, spaces |-> TRUE, min_digits |-> 4],
    [prefix |-> << >>, spaces |-> FALSE, min_digits |-> 2] >>

\* The index of the last character of the longest run of digits that starts
\* at j (\d+, greedy); j - 1 if s[j] is no digit.
RECURSIVE DigitsEnd(_, _)
DigitsEnd(s, j) ==
    IF j <= Len(s) /\ IsDigit(s[j]) THEN DigitsEnd(s, j + 1) ELSE j - 1

\* \d{min,4}[chamber]\d+ matched at position j: the index of the match's last
\* character, 0 if there is no match at j.  The chamber letter is no digit,
\* so at most one year length fits.
CoreEndAt(s, j, min_digits) ==
    LET fits == {n \in min_digits..4 :
                    /\ j + n + 1 <= Len(s)
                    /\ \A i \in j..(j + n - 1) : IsDigit(s[i])
                    /\ s[j + n] \in ChamberLetters
                    /\ IsDigit(s[j + n + 1])}
    IN  IF fits = {} THEN 0
        ELSE LET n == CHOOSE n \in fits : TRUE
             IN  DigitsEnd(s, j + n + 1)

\* The position after the greedy \s* that starts at j.
RECURSIVE SkipSpaces(_, _)
SkipSpaces(s, j) ==
    IF j <= Len(s) /\ IsSpace(s[j]) THEN SkipSpaces(s, j + 1) ELSE j

\* One pattern matched at position i: the index of the match's last character,
\* 0 if there is no match at i.
PatternEndAt(s, i, p) ==
    IF /\ i + Len(p.prefix) - 1 <= Len(s)
       /\ \A j \in 1..Len(p.prefix) : s[i + j - 1] = p.prefix[j]
    THEN LET j == i + Len(p.prefix)
         IN  CoreEndAt(s, IF p.spaces THEN SkipSpaces(s, j) ELSE j, p.min_digits)
    ELSE 0

\* re.search(pattern, s): the leftmost match, << >> if there is none.
SearchPattern(s, p) ==
    LET starts == {i \in 1..Len(s) : PatternEndAt(s, i, p) > 0}
    IN  IF starts = {} THEN << >>
        ELSE LET i == CHOOSE i \in starts : \A k \in starts : i <= k
             IN  SubSeq(s, i, PatternEndAt(s, i, p))

\* _extract_case_number: group 1 of the first pattern that matches, stripped;
\* the empty text stands for None (a match is never empty).
RECURSIVE ExtractFrom(_, _)
ExtractFrom(query, k) ==
    IF k > Len(CasePatterns) THEN << >>
    ELSE IF SearchPattern(query, CasePatterns[k]) # << >>
         THEN Strip(SearchPattern(query, CasePatterns[k]))
    ELSE ExtractFrom(query, k + 1)

extract_case_number(query) == ExtractFrom(query, 1)

\* _is_exact_case_match that only looks for the input in the stored number.
is_exact_case_match_one_way(input_case, db_case) ==
    IF input_case = << >> \/ db_case = << >> THEN FALSE
    ELSE Contains(RemoveSpaces(Lower(db_case)), RemoveSpaces(Lower(input_case)))

\* _is_exact_case_match
is_exact_case_match(input_case, db_case) ==
    IF input_case = << >> \/ db_case = << >> THEN FALSE
    ELSE LET input_clean == RemoveSpaces(Lower(input_case))
             db_clean == RemoveSpaces(Lower(db_case))
         IN  \/ input_clean = db_clean
             \/ Contains(db_clean, input_clean)
             \/ Contains(input_clean, db_clean)

\* _is_partial_case_match
is_partial_case_match(input_case, db_case) ==
    IF input_case = << >> \/ db_case = << >> THEN FALSE
    ELSE LET input_core == SearchPattern(input_case, CasePatterns[Len(CasePatterns)])
             db_core == SearchPattern(db_case, CasePatterns[Len(CasePatterns)])
         IN  /\ input_core # << >>
             /\ db_core # << >>
             /\ Lower(input_core) = Lower(db_core)

----------------------------------------------------------------------------
(* Documents and the vector store *)

\* metadata.get(key, '')
MetaGet(metadata, key) == IF key \in DOMAIN metadata THEN metadata[key] ELSE << >>

Doc(content, metadata) == [page_content |-> content, metadata |-> metadata]

\* Every sequence without repetition of n elements of the set S.
RECURSIVE Arrangements(_, _)
Arrangements(S, n) ==
    IF n = 0 THEN {<< >>}
    ELSE UNION {{<<x>> \o a : a \in Arrangements(S \ {x}, n - 1)} : x \in S}

Min(a, b) == IF a < b THEN a ELSE b

\* VectorDBManager.search_similar_documents(query, collection_name, k): the k
\* documents of the collection nearest to the query, in the order of the
\* embedding's distances, which the model does not compute: any order.  A
\* missing or empty collection, and any error of the store, give [].
SimilarDocuments(collection, k) ==
    {<< >>} \cup Arrangements(collection, Min(k, Cardinality(collection)))

\* SelfQueryRetriever.get_relevant_documents(query): the documents that pass
\* the filter the LLM derived from the query, nearest first; or an error.
SelfQueryRaised == [raised |-> TRUE, docs |-> << >>]
SelfQueryDocuments(collection) ==
    {SelfQueryRaised}
        \cup {[raised |-> FALSE, docs |-> a] :
                  a \in UNION {Arrangements(collection, n) :
                                   n \in 0..Cardinality(collection)}}

\* collection_mapping, then VectorDBManager.COLLECTIONS
CollectionOf(category) ==
    CASE category = "accident"  -> "car_case"
      [] category = "precedent" -> "precedent"
      [] category = "law"       -> "traffic_law_rag"
      [] category = "term"      -> "term"
      [] OTHER                  -> "none"

----------------------------------------------------------------------------
(* HybridRAGSystem: formatting *)

\* page_content[:200] of a snippet, page_content[:500] of an exact precedent,
\* page_content[:100] to tell duplicates apart, at most 3 snippets
snippet_chars == 200
precedent_chars == 500
dedupe_chars == 100
max_snippets == 3

\* _format_metadata
format_metadata(metadata, category) ==
    CASE category = "accident" ->
             IF MetaGet(metadata, "sageon ID") # << >>
             THEN <<"sa", "geon", ":", " ">> \o MetaGet(metadata, "sageon ID")
                  \o <<",", " ", "bi", "yul", ":", " ">> \o MetaGet(metadata, "gibon gwasilbiyul")
             ELSE << >>
      [] category = "precedent" ->
             IF MetaGet(metadata, "case_id") # << >>
             THEN <<"pan", "rye", ":", " ">> \o MetaGet(metadata, "case_id")
                  \o <<",", " ", "beob", "won", ":", " ">> \o MetaGet(metadata, "court")
             ELSE << >>
      [] category = "law" ->
             IF MetaGet(metadata, "title") # << >>
             THEN <<"jo", "mun", ":", " ">> \o MetaGet(metadata, "title")
             ELSE << >>
      [] category = "term" ->
             IF MetaGet(metadata, "term") # << >>
             THEN <<"yong", "eo", ":", " ">> \o MetaGet(metadata, "term")
             ELSE << >>
      [] OTHER -> << >>

\* f"[{i}] {content}\n{metadata}"
Snippet(i, doc, category) ==
    <<"[">> \o Digits(i) \o <<"]", " ">> \o Take(doc.page_content, snippet_chars)
        \o <<"\n">> \o format_metadata(doc.metadata, category)

\* "\n".join(parts[i:])
RECURSIVE JoinSnippets(_, _, _)
JoinSnippets(docs, i, category) ==
    IF i > Len(docs) THEN << >>
    ELSE Snippet(i, docs[i], category)
         \o (IF i < Len(docs) THEN <<"\n">> ELSE << >>)
         \o JoinSnippets(docs, i + 1, category)

\* _format_search_results: the first three documents, numbered from 1
format_search_results(docs, category) ==
    IF docs = << >> THEN << >>
    ELSE JoinSnippets(Take(docs, max_snippets), 1, category)

\* _combine_search_results: the self-query results, then the direct results,
\* a document dropped when the first 100 characters of its content were seen
\* (hash() of equal strings is equal; distinct strings are taken to hash apart).
RECURSIVE Dedupe(_, _)
Dedupe(docs, seen_content) ==
    IF docs = << >> THEN << >>
    ELSE LET key == Take(Head(docs).page_content, dedupe_chars)
         IN  IF key \in seen_content THEN Dedupe(Tail(docs), seen_content)
             ELSE <<Head(docs)>> \o Dedupe(Tail(docs), seen_content \cup {key})

combine_search_results(direct_results, self_query_results) ==
    Dedupe(self_query_results \o direct_results, {})

\* _format_exact_precedent_result
format_exact_precedent_result(doc, searched_case, is_exact) ==
    LET content == Take(doc.page_content, precedent_chars)
        case_id == IF "case_id" \in DOMAIN doc.metadata
                   THEN doc.metadata["case_id"] ELSE searched_case
        court == IF "court" \in DOMAIN doc.metadata
                 THEN doc.metadata["court"] ELSE <<"mi", "sang">>
        match_type == IF is_exact THEN <<"jeong", "hwag", "han", " ", "mae", "ching">> ELSE <<"bu", "bun", " ", "mae", "ching">>
    IN  <<"u2705", " ", "*", "*", "pan", "rye", " ", "geom", "saeg", " ",
          "seong", "gong", "*", "*", " ", "(">> \o match_type \o <<")", "\n", "\n">>
        \o <<"u1f4dd", " ", "*", "*", "pan", "rye", " ", "jeong", "bo", ":",
             "*", "*", "\n">>
        \o <<"-", " ", "sa", "geon", "beon", "ho", ":", " ">> \o case_id \o <<"\n">>
        \o <<"-", " ", "beob", "won", ":", " ">> \o court \o <<"\n", "\n">>
        \o <<"u1f4dc", " ", "*", "*", "pan", "rye", " ", "nae", "yong", ":",
             "*", "*", "\n">> \o content \o <<"\n", "\n">>
        \o (IF is_exact THEN << >>
            ELSE <<"u1f4dd", " ", "*", "*", "mae", "ching", " ", "an", "nae", ":",
                   "*", "*", " ", "ib", "ryeog", "ha", "sin", " ", "'">> \o searched_case
                 \o <<"'", "wa", " ", "yu", "sa", "han", " ", "pan", "rye", "ib",
                      "ni", "da", ".", "\n">>)

\* The sentinel of search_context: f"EXACT_PRECEDENT_NOT_FOUND: {case_number}"
SentinelPrefix == <<"E", "X", "A", "C", "T", "_", "P", "R", "E", "C",
                    "E", "D", "E", "N", "T", "_", "N", "O", "T", "_",
                    "F", "O", "U", "N", "D", ":">>
Sentinel(case_number) == SentinelPrefix \o <<" ">> \o case_number

----------------------------------------------------------------------------
(* HybridRAGSystem: search_context *)

\* self_query_triggers of _should_use_self_query
self_query_triggers(category) ==
    CASE category = "precedent" ->
             << <<"dae", "beob", "won">>, <<"go", "deung", "beob", "won">>, <<"ji", "bang", "beob", "won">>, <<"beob", "won">>,
                <<"2", "0">>, <<"1", "9">>, <<"yeon", "do">>, <<"nyeon", "do">> >>
      [] category = "law" ->
             << <<"je">>, <<"jo">>, <<"hang">>, <<"beon", "ho">>,
                <<"sin", "ho">>, <<"gyo", "cha", "ro">>, <<"an", "jeon">>, <<"un", "jeon">> >>
      [] category = "accident" ->
             << <<"A", "cha", "ryang">>, <<"B", "cha", "ryang">>, <<"bi", "yul">>, <<"gwa", "sil">>,
                <<"jwa", "hoe", "jeon">>, <<"jig", "jin">>, <<"gyo", "cha", "ro">>, <<"sin", "ho">> >>
      [] category = "term" ->
             << <<"jeong", "ui">>, <<"ui", "mi">>, <<"gae", "nyeom">>, <<"yong", "eo">> >>
      [] OTHER -> << >>

self_query_min_triggers == 2
self_query_min_length == 30
\* the fetch size of the citation gate (k=10) and the cache's capacity
gate_fetch == 10
cache_capacity == 100

\* _should_use_self_query
should_use_self_query(query, category) ==
    \/ TierScore(query, self_query_triggers(category), 1) >= self_query_min_triggers
    \/ Len(query) > self_query_min_length

\* _search_exact_precedent on the documents the store returned for the
\* citation: the first exact match, else the first partial match, formatted;
\* << >> stands for None.
search_exact_precedent(case_number, docs) ==
    LET exact_matches ==
            SelectSeq(docs, LAMBDA d :
                is_exact_case_match(case_number, Strip(MetaGet(d.metadata, "case_id"))))
        partial_matches ==
            SelectSeq(docs, LAMBDA d :
                /\ ~is_exact_case_match(case_number, Strip(MetaGet(d.metadata, "case_id")))
                /\ is_partial_case_match(case_number, Strip(MetaGet(d.metadata, "case_id"))))
    IN  IF docs = << >> THEN << >>
        ELSE IF exact_matches # << >>
            THEN format_exact_precedent_result(exact_matches[1], case_number, TRUE)
        ELSE IF partial_matches # << >>
            THEN format_exact_precedent_result(partial_matches[1], case_number, FALSE)
        ELSE << >>

\* cache_key = f"{category}_{hash(query)}": equal for equal queries; distinct
\* queries are taken to hash apart.
CacheKey(category, query) == <<category, query>>

\* _self_query_search: [docs, retrievers]
self_query_search(category, max_docs, env, retrievers) ==
    LET have == category \in retrievers
        built == ~have /\ CollectionOf(category) # "none" /\ env.build
        after == IF built THEN retrievers \cup {category} ELSE retrievers
    IN  IF ~(have \/ built) \/ env.selfq.raised
        THEN [docs |-> << >>, retrievers |-> after]
        ELSE [docs |-> Take(env.selfq.docs, max_docs), retrievers |-> after]

\* _hybrid_search with _direct_search: [context, stats, retrievers]
hybrid_search(query, category, max_docs, env, stats, retrievers) ==
    LET direct_results == IF CollectionOf(category) = "none" THEN << >> ELSE env.direct
        stats1 == [stats EXCEPT !.hybrid_searches = @ + 1, !.direct_searches = @ + 1]
        sq == self_query_search(category, max_docs, env, retrievers)
        combined_results == combine_search_results(direct_results, sq.docs)
    IN  IF should_use_self_query(query, category)
        THEN [context |-> IF combined_results # << >>
                          THEN format_search_results(combined_results, category)
                          ELSE format_search_results(direct_results, category),
              stats |-> [stats1 EXCEPT !.self_query_searches = @ + 1],
              retrievers |-> sq.retrievers]
        ELSE [context |-> format_search_results(direct_results, category),
              stats |-> stats1,
              retrievers |-> retrievers]

\* search_context without the gate's early return: a citation without a match
\* goes on to the cache and the hybrid search.
search_context_past_gate(query, category, max_docs, env, cache, stats, retrievers) ==
    LET case_number == extract_case_number(query)
        exact_match_result == search_exact_precedent(case_number, env.gate)
        cache_key == CacheKey(category, query)
        hybrid == hybrid_search(query, category, max_docs, env, stats, retrievers)
    IN  IF category = "precedent" /\ case_number # << >> /\ exact_match_result # << >>
        THEN [context |-> exact_match_result, cache |-> cache, stats |-> stats,
              retrievers |-> retrievers]
        ELSE IF cache_key \in DOMAIN cache
        THEN [context |-> cache[cache_key],
              cache |-> cache,
              stats |-> [stats EXCEPT !.cache_hits = @ + 1],
              retrievers |-> retrievers]
        ELSE [context |-> hybrid.context,
              cache |-> IF hybrid.context # << >> /\ Cardinality(DOMAIN cache) < cache_capacity
                        THEN (cache_key :> hybrid.context) @@ cache
                        ELSE cache,
              stats |-> hybrid.stats,
              retrievers |-> hybrid.retrievers]

\* search_context without the size test of its cache: every non-empty result
\* is stored.
search_context_storing_all(query, category, max_docs, env, cache, stats, retrievers) ==
    LET case_number == extract_case_number(query)
        exact_match_result == search_exact_precedent(case_number, env.gate)
        cache_key == CacheKey(category, query)
        hybrid == hybrid_search(query, category, max_docs, env, stats, retrievers)
    IN  IF category = "precedent" /\ case_number # << >>
        THEN [context |-> IF exact_match_result # << >> THEN exact_match_result
                          ELSE Sentinel(case_number),
              cache |-> cache, stats |-> stats, retrievers |-> retrievers]
        ELSE IF cache_key \in DOMAIN cache
        THEN [context |-> cache[cache_key],
              cache |-> cache,
              stats |-> [stats EXCEPT !.cache_hits = @ + 1],
              retrievers |-> retrievers]
        ELSE [context |-> hybrid.context,
              cache |-> IF hybrid.context # << >>
                        THEN (cache_key :> hybrid.context) @@ cache
                        ELSE cache,
              stats |-> hybrid.stats,
              retrievers |-> hybrid.retrievers]

\* search_context: [context, cache, stats, retrievers]
search_context(query, category, max_docs, env, cache, stats, retrievers) ==
    LET case_number == extract_case_number(query)
        exact_match_result == search_exact_precedent(case_number, env.gate)
        cache_key == CacheKey(category, query)
        hybrid == hybrid_search(query, category, max_docs, env, stats, retrievers)
        same == [cache |-> cache, stats |-> stats, retrievers |-> retrievers]
    IN  IF category = "precedent" /\ case_number # << >>
        THEN IF exact_match_result # << >>
             THEN [context |-> exact_match_result] @@ same
             ELSE [context |-> Sentinel(case_number)] @@ same
        ELSE IF cache_key \in DOMAIN cache
        THEN [context |-> cache[cache_key],
              cache |-> cache,
              stats |-> [stats EXCEPT !.cache_hits = @ + 1],
              retrievers |-> retrievers]
        ELSE [context |-> hybrid.context,
              cache |-> IF hybrid.context # << >> /\ Cardinality(DOMAIN cache) < cache_capacity
                        THEN (cache_key :> hybrid.context) @@ cache
                        ELSE cache,
              stats |-> hybrid.stats,
              retrievers |-> hybrid.retrievers]

----------------------------------------------------------------------------
(* SessionBasedConversationManager *)

\* ConversationBufferWindowMemory(k=8): the prompt's {history} is rendered from
\* the last 2 * k messages of chat_memory.messages.
memory_k == 8

\* cleanup_old_sessions(max_age_hours=24)
max_age_hours == 24
seconds_per_hour == 3600

\* chain.memory.chat_memory.messages
Messages(chain) == chain.messages

\* ConversationBufferWindowMemory.buffer: messages[-k * 2:]
HistoryWindow(messages) ==
    IF Len(messages) <= 2 * memory_k THEN messages
    ELSE SubSeq(messages, Len(messages) - 2 * memory_k + 1, Len(messages))

\* get_or_create_chain at time t: [chains, metadata]
get_or_create_chain(chains, metadata, session_id, category, t) ==
    IF session_id \notin DOMAIN chains
    THEN [chains |-> (session_id :> [messages |-> << >>, prompt |-> category]) @@ chains,
          metadata |-> (session_id :> [created_at |-> t,
                                       last_activity |-> t,
                                       total_interactions |-> 0,
                                       categories_used |-> << >>,
                                       total_processing_time |-> 0,
                                       primary_category |-> category]) @@ metadata]
    ELSE [chains |-> [chains EXCEPT ![session_id].prompt = category],
          metadata |-> [metadata EXCEPT ![session_id].primary_category = category,
                                        ![session_id].last_activity = t]]

\* update_session_stats
update_session_stats(metadata, session_id, category, processing_time) ==
    IF session_id \in DOMAIN metadata
    THEN LET used == metadata[session_id].categories_used
             count == IF category \in DOMAIN used THEN used[category] ELSE 0
         IN  [metadata EXCEPT
                 ![session_id].total_interactions = @ + 1,
                 ![session_id].total_processing_time = @ + processing_time,
                 ![session_id].categories_used = (category :> (count + 1)) @@ used]
    ELSE metadata

\* cleanup_old_sessions that takes a session of exactly the maximal age for
\* expired.
cleanup_old_sessions_at_age(chains, metadata, t) ==
    LET expired_sessions ==
            {s \in DOMAIN metadata :
                 t - metadata[s].last_activity >= max_age_hours * seconds_per_hour}
    IN  [chains |-> [s \in DOMAIN chains \ expired_sessions |-> chains[s]],
         metadata |-> [s \in DOMAIN metadata \ expired_sessions |-> metadata[s]]]

\* cleanup_old_sessions that deletes the metadata of the expired sessions and
\* keeps their chains.
cleanup_old_sessions_keeping_chains(chains, metadata, t) ==
    LET expired_sessions ==
            {s \in DOMAIN metadata :
                 t - metadata[s].last_activity > max_age_hours * seconds_per_hour}
    IN  [chains |-> chains,
         metadata |-> [s \in DOMAIN metadata \ expired_sessions |-> metadata[s]]]

\* cleanup_old_sessions at time t: [chains, metadata]
cleanup_old_sessions(chains, metadata, t) ==
    LET expired_sessions ==
            {s \in DOMAIN metadata :
                 t - metadata[s].last_activity > max_age_hours * seconds_per_hour}
    IN  [chains |-> [s \in DOMAIN chains \ expired_sessions |-> chains[s]],
         metadata |-> [s \in DOMAIN metadata \ expired_sessions |-> metadata[s]]]

\* clear_session_memory that forgets the session: the chain and the metadata
\* are deleted.
clear_session_memory_deleting(chains, metadata, session_id) ==
    [chains |-> [s \in DOMAIN chains \ {session_id} |-> chains[s]],
     metadata |-> [s \in DOMAIN metadata \ {session_id} |-> metadata[s]]]

\* clear_session_memory: [chains, metadata]
clear_session_memory(chains, metadata, session_id) ==
    IF session_id \in DOMAIN chains
    THEN [chains |-> [chains EXCEPT ![session_id].messages = << >>],
          metadata |-> IF session_id \in DOMAIN metadata
                       THEN [metadata EXCEPT
                                ![session_id].total_interactions = 0,
                                ![session_id].categories_used = << >>,
                                ![session_id].total_processing_time = 0]
                       ELSE metadata]
    ELSE [chains |-> chains, metadata |-> metadata]

\* get_session_stats(session_id)['memory_length']
memory_length(chains, metadata, session_id) ==
    IF session_id \in DOMAIN metadata /\ session_id \in DOMAIN chains
    THEN Len(Messages(chains[session_id])) ELSE 0

----------------------------------------------------------------------------
(* OptimizedTrafficAccidentBot *)

\* search_context(user_input, category): max_docs keeps its default
default_max_docs == 2
\* context[:200] in the enhanced input, user_input[:50] in a fallback,
\* error_message[:100] in the error response
context_chars == 200
fallback_chars == 50

FallbackLabel(category) ==
    CASE category = "accident"  -> <<"sa", "go", " ", "sang", "hwang", ":", " ", "\"">>
      [] category = "precedent" -> <<"pan", "rye", " ", "geom", "saeg", ":", " ", "\"">>
      [] category = "law"       -> <<"beob", "ryul", " ", "jo", "hoe", ":", " ", "\"">>
      [] category = "term"      -> <<"yong", "eo", " ", "seol", "myeong", ":", " ", "\"">>
      [] OTHER                  -> <<"il", "ban", " ", "sang", "dam", ":", " ", "\"">>

FallbackGuidance(category) ==
    CASE category = "accident" ->
             <<"-", " ", "gyo", "cha", "ro", " ", "sa", "go", "ui", " ",
               "gyeong", "u_", " ", "jwa", "hoe", "jeon", " ", "cha", "ryang", "ui",
               " ", "gwa", "sil", "bi", "yul", "i_", " ", "nop", "seub", "ni",
               "da", "\n">>
             \o <<"-", " ", "sin", "ho", "wi", "ban", ",", " ", "gwa", "sog",
                  " ", "deung", "e_", " ", "tta", "ra", " ", "bi", "yul", "i_",
                  " ", "jo", "jeong", "doeb", "ni", "da", "\n">>
             \o <<"-", " ", "jeong", "hwag", "han", " ", "bun", "seog", "eul", " ",
                  "wi", "hae", " ", "sang", "hwang", "eul", " ", "deo", " ", "ja",
                  "se", "hi", " ", "mal", "sseum", "hae", " ", "ju", "se", "yo",
                  "\n">>
      [] category = "precedent" ->
             <<"-", " ", "sa", "geon", "beon", "ho", "reul", " ", "jeong", "hwag",
               "ha", "ge", " ", "ib", "ryeog", "hae", "ju", "se", "yo", " ",
               "(", "ye", ":", " ", "dae", "beob", "won", " ", "2", "0",
               "1", "9", "da", "1", "2", "3", "4", "5", ")", "\n">>
             \o <<"-", " ", "gyo", "tong", "sa", "go", " ", "gwan", "ryeon", " ",
                  "pan", "rye", "neun", " ", "dae", "beob", "won", ",", " ", "go",
                  "deung", "beob", "won", "e_", "seo", " ", "hwag", "in", " ", "ga",
                  "neung", "hab", "ni", "da", "\n">>
             \o <<"-", " ", "pan", "rye", "neun", " ", "bi", "seus", "han", " ",
                  "sa", "an", "ui", " ", "cham", "go", " ", "ja", "ryo", "ro",
                  " ", "hwal", "yong", "hab", "ni", "da", "\n">>
      [] category = "law" ->
             <<"-", " ", "do", "ro", "gyo", "tong", "beob", "eun", " ", "gyo",
               "tong", "an", "jeon", "eul", " ", "wi", "han", " ", "gi", "bon",
               " ", "beob", "ryul", "ib", "ni", "da", "\n">>
             \o <<"-", " ", "jo", "mun", " ", "beon", "ho", "reul", " ", "jeong",
                  "hwag", "ha", "ge", " ", "ib", "ryeog", "hae", "ju", "se", "yo",
                  " ", "(", "ye", ":", " ", "je", "5", "jo", ",", " ",
                  "je", "2", "5", "jo", ")", "\n">>
             \o <<"-", " ", "sin", "ho", "wi", "ban", ",", " ", "gwa", "sog",
                  ",", " ", "eum", "ju", "un", "jeon", " ", "deung", "e_", " ",
                  "dae", "han", " ", "cheo", "beol", " ", "gyu", "jeong", "i_", " ",
                  "iss", "seub", "ni", "da", "\n">>
      [] category = "term" ->
             <<"-", " ", "gwa", "sil", "bi", "yul", ":", " ", "sa", "go",
               " ", "chaeg", "im", "ui", " ", "bi", "yul", "(", "peo", "sen",
               "teu", ")", "\n">>
             \o <<"-", " ", "do", "ro", ":", " ", "cha", "ryang", "i_", " ",
                  "da", "ni", "neun", " ", "mo", "deun", " ", "gil", "\n">>
             \o <<"-", " ", "cha", "do", ":", " ", "do", "ro", "e_", "seo",
                  " ", "cha", "ryang", "i_", " ", "da", "ni", "neun", " ", "bu",
                  "bun", "\n">>
             \o <<"-", " ", "hoeg", "dan", "bo", "do", ":", " ", "bo", "haeng",
                  "ja", "ga", " ", "do", "ro", "reul", " ", "geon", "neo", "neun",
                  " ", "gos", "\n">>
      [] OTHER ->
             <<"-", " ", "gyo", "tong", "sa", "go", " ", "gwa", "sil", "bi",
               "yul", " ", "bun", "seog", "\n">>
             \o <<"-", " ", "do", "ro", "gyo", "tong", "beob", " ", "jo", "hoe",
                  "\n">>
             \o <<"-", " ", "pan", "rye", " ", "geom", "saeg", "\n">>
             \o <<"-", " ", "beob", "ryul", " ", "yong", "eo", " ", "seol", "myeong",
                  "\n">>

\* _generate_quick_fallback_response
generate_quick_fallback_response(user_input, category) ==
    FallbackLabel(category) \o Take(user_input, fallback_chars) \o <<".", ".", ".", "\"", "\n", "\n">>
        \o <<"hyeon", "jae", " ", "il", "si", "jeog", "eu", "ro", " ", "A",
             "I", " ", "eung", "dab", " ", "saeng", "seong", "e_", " ", "mun",
             "je", "ga", " ", "iss", "seub", "ni", "da", ".", "\n", "\n">>
        \o <<"gi", "bon", " ", "an", "nae", ":", "\n">>
        \o FallbackGuidance(category)
        \o <<"\n", "jam", "si", " ", "hu", " ", "da", "si", " ", "si",
             "do", "hae", "ju", "se", "yo", ".">>

\* The response text of _generate_error_response; the error message and the
\* fixed advice that follow its first line are left out.
ErrorResponseText == <<"joe", "song", "hab", "ni", "da", ".", " ", "il", "si", "jeog",
                       "eu", "ro", " ", "si", "seu", "tem", "e_", " ", "mun", "je",
                       "ga", " ", "bal", "saeng", "haess", "seub", "ni", "da", ".">>

\* _generate_error_response
generate_error_response ==
    [category |-> "general", response |-> ErrorResponseText,
     context_used |-> FALSE, error |-> TRUE]

\* What the chat model does with the one request of chain.predict: it answers
\* with a text, or the call fails (an error, a timeout).
LLMFailed == <<"failed">>

\* f"{user_input}\n\n[참고자료: {context[:200]}]", or the input as it is
enhanced_input(user_input, context) ==
    IF context # << >>
    THEN user_input \o <<"\n", "\n", "[", "cham", "go", "ja", "ryo", ":", " ">> \o Take(context, context_chars) \o <<"]">>
    ELSE user_input

\* chain.predict with one more attempt after a failed call of the LLM.
chain_predict_with_retry(chain, input, llm) ==
    IF llm = LLMFailed
    THEN [output |-> LLMFailed, calls |-> 2, messages |-> Messages(chain)]
    ELSE [output |-> llm,
          calls |-> 1,
          messages |-> Messages(chain) \o <<[role |-> "Human", content |-> input],
                                            [role |-> "AI", content |-> llm]>>]

\* chain.predict(input=...): the chain renders its prompt from the template,
\* the window of the memory and the input, calls the LLM once and, when the
\* call returned, saves the input and the output to the memory.
\* [output, calls, messages]
chain_predict(chain, input, llm) ==
    IF llm = LLMFailed
    THEN [output |-> LLMFailed, calls |-> 1, messages |-> Messages(chain)]
    ELSE [output |-> llm,
          calls |-> 1,
          messages |-> Messages(chain) \o <<[role |-> "Human", content |-> input],
                                            [role |-> "AI", content |-> llm]>>]

\* self.classifier.classify(user_input): process_query's first step
process_query_classify(user_input, st, remote) ==
    classify(user_input, st.model_id, remote)

\* self.rag_system.search_context(user_input, category): its second step
process_query_search(user_input, category, env, st) ==
    search_context(user_input, category, default_max_docs, env,
                   st.search_cache, st.search_stats, st.self_query_retrievers)

\* What stands for the dict of a call that returned none.
NoResult == [category |-> None, response |-> << >>, context_used |-> FALSE,
             error |-> FALSE]

\* The body of process_query's try block, after the classifier gave category
\* and search_context gave sc.  args: the call's arguments and what its
\* collaborators do (llm; fault: get_or_create_chain raises; elapsed: the
\* seconds the call takes).  st: the objects' state before the call.
\* Gives the state after and the returned dict, or raised = TRUE and NoResult.
process_query_body(args, st, category, sc) ==
    LET context == sc.context
        gc == get_or_create_chain(st.session_chains, st.session_metadata,
                                  args.session_id, category, st.now)
        input == enhanced_input(args.user_input, context)
        predicted == chain_predict(gc.chains[args.session_id], input, args.llm)
        response == IF predicted.output = LLMFailed
                    THEN generate_quick_fallback_response(args.user_input, category)
                    ELSE predicted.output
        searched == [st EXCEPT !.search_cache = sc.cache,
                               !.search_stats = sc.stats,
                               !.self_query_retrievers = sc.retrievers]
    IN  IF args.fault
        THEN [raised |-> TRUE, st |-> searched, llm_calls |-> 0,
              llm_failed |-> FALSE,
              llm_input |-> << >>, prompt |-> "none", history |-> << >>,
              category |-> category, context |-> context,
              result |-> NoResult]
        ELSE [raised |-> FALSE,
              st |-> [searched EXCEPT
                         !.session_chains =
                             [gc.chains EXCEPT ![args.session_id].messages = predicted.messages],
                         !.session_metadata =
                             update_session_stats(gc.metadata, args.session_id,
                                                  category, args.elapsed),
                         !.total_requests = @ + 1,
                         !.total_processing_time = @ + args.elapsed],
              llm_calls |-> predicted.calls,
              llm_failed |-> predicted.output = LLMFailed,
              llm_input |-> input,
              prompt |-> gc.chains[args.session_id].prompt,
              history |-> HistoryWindow(Messages(gc.chains[args.session_id])),
              category |-> category,
              context |-> context,
              result |-> [category |-> category,
                          response |-> Strip(response),
                          context_used |-> context # << >>,
                          error |-> FALSE]]

\* process_query without its except clause: what the try block raises leaves
\* process_query.
process_query_without_except(args, st, category, sc) ==
    process_query_body(args, st, category, sc)

\* process_query: what the try block returns, or the error response when it
\* raised.
process_query(args, st, category, sc) ==
    LET body == process_query_body(args, st, category, sc)
    IN  IF body.raised
        THEN [body EXCEPT !.raised = FALSE, !.result = generate_error_response]
        ELSE body

----------------------------------------------------------------------------
(* The state machine *)

\* The objects' state as one record, for the operators above.
State ==
    [model_id |-> model_id,
     search_cache |-> search_cache,
     search_stats |-> search_stats,
     self_query_retrievers |-> self_query_retrievers,
     session_chains |-> session_chains,
     session_metadata |-> session_metadata,
     total_requests |-> total_requests,
     total_processing_time |-> total_processing_time,
     now |-> now]

\* The queries of the specification's end-to-end scenarios, an empty query and
\* a greeting without any keyword.
QueryKnown == <<"dae", "beob", "won", " ", "2", "0", "1", "9", "da", "1",
                "2", "3", "4", "5", " ", "pan", "rye", " ", "nae", "yong",
                " ", "al", "ryeo", "jwo">>
QueryAbsent == <<"dae", "beob", "won", " ", "9", "9", "9", "9", "da", "9",
                 "9", "9", "9", "9", " ", "pan", "rye", " ", "al", "ryeo",
                 "jwo">>
QueryAccident == <<"gyo", "cha", "ro", "e_", "seo", " ", "jwa", "hoe", "jeon", " ",
                   "jung", " ", "jig", "jin", " ", "cha", "ryang", "gwa", " ", "chung",
                   "dol", "haess", "eo", "yo">>
QueryLaw == <<"do", "ro", "gyo", "tong", "beob", " ", "je", "5", "jo", " ",
              "nae", "yong">>
QueryTerm == <<"gwa", "sil", "bi", "yul", "i_", "ran", " ", "mu", "eos", "in",
               "ga", "yo", "?">>
QueryFollowUp == <<"i_", "wa", " ", "gwan", "ryeon", "doen", " ", "beob", "ryul", "do",
                   " ", "al", "ryeo", "jwo">>
QueryGreeting == <<"an", "nyeong", "ha", "se", "yo", " ", "ban", "gab", "seub", "ni",
                   "da", " ", "yeo", "reo", "bun">>
QueryEmpty == << >>

\* Documents of the store.
DocPrecedent == Doc(<<"sin", "ho", "wi", "ban", " ", "cha", "ryang", "ui", " ", "gwa",
                      "sil", "eul", " ", "in", "jeong", "han", " ", "sa", "rye">>,
                    [case_id |-> <<"2", "0", "1", "9", "da", "1", "2", "3", "4", "5">>, court |-> <<"dae", "beob", "won">>])
DocPrecedentOther == Doc(<<"an", "jeon", "geo", "ri", " ", "mi", "hwag", "bo", " ", "sa",
                           "geon">>,
                         [case_id |-> <<"9", "2", "do", "2", "0", "7", "7">>, court |-> <<"dae", "beob", "won">>])
DocLaw == Doc(<<"mo", "deun", " ", "cha", "ui", " ", "un", "jeon", "ja", "neun",
                " ", "sin", "ho", "reul", " ", "tta", "ra", "ya", " ", "han",
                "da">>,
              [title |-> <<"je", "5", "jo", "(", "sin", "ho", " ", "tto", "neun", " ",
                           "ji", "si", "e_", " ", "tta", "reul", " ", "ui", "mu", ")">>])
DocTerm == Doc(<<"gwa", "sil", "bi", "yul", ":", " ", "sa", "go", " ", "chaeg",
                 "im", "ui", " ", "bi", "yul">>, [term |-> <<"gwa", "sil", "bi", "yul">>])
DocAccident == Doc(<<"gyo", "cha", "ro", " ", "jwa", "hoe", "jeon", " ", "dae", " ",
                     "jig", "jin", " ", "sa", "go">>, [type |-> <<"c", "a", "r", "_", "c", "a", "s", "e">>])

\* What the chat model answers when it answers.
LLMAnswers == { <<" ", "dab", "byeon", "ib", "ni", "da", "\n">> }
LLMOutcomes == LLMAnswers \cup {LLMFailed}

\* What the fine-tuned model does when it is asked.
RemoteOutcomes ==
    {RemoteError, RemoteNone,
     RemoteAnswer(<<"l","a","w">>),
     RemoteAnswer(<<" ","T","e","r","m","\n">>),
     RemoteAnswer(<<"t","r","a","f","f","i","c">>)}

\* The outcomes that can make a difference to classify(user_input): those of
\* the remote model when it is called, one of them when it is not.
RemotesFor(user_input) ==
    IF CallsFinetuned(user_input, model_id) THEN RemoteOutcomes ELSE {RemoteError}

\* What the store and the self-query retriever do during one search_context,
\* as far as it can make a difference to the call:
\*   gate    the documents search_similar_documents returns for the citation
\*   direct  the documents it returns for the query
\*   build   a self-query retriever can be built (VectorStore and LLM are there)
\*   selfq   what the retriever returns, or SelfQueryRaised
\* The gate's documents when the gate runs, nothing on a cache hit, else the
\* direct documents and, when the self-query runs, what it does.  healthy: the
\* store answers every search (no error, no empty result of a collection that
\* has documents).
EnvsFor(query, category, max_docs, healthy) ==
    LET idle == [gate |-> << >>, direct |-> << >>, build |-> FALSE,
                 selfq |-> SelfQueryRaised]
        found(collection, k) ==
            {d \in SimilarDocuments(collection, k) :
                healthy /\ collection # {} => d # << >>}
        collection == IF CollectionOf(category) \in DOMAIN collections
                      THEN collections[CollectionOf(category)] ELSE {}
    IN  IF category = "precedent" /\ extract_case_number(query) # << >>
        THEN {[idle EXCEPT !.gate = g] : g \in found(collections["precedent"], gate_fetch)}
        ELSE IF CacheKey(category, query) \in DOMAIN search_cache
        THEN {idle}
        ELSE IF should_use_self_query(query, category)
        THEN {[idle EXCEPT !.direct = d] : d \in found(collection, max_docs * 2)}
             \cup {[idle EXCEPT !.direct = d, !.build = TRUE, !.selfq = s] :
                      d \in found(collection, max_docs * 2),
                      s \in SelfQueryDocuments(collection)}
        ELSE {[idle EXCEPT !.direct = d] : d \in found(collection, max_docs * 2)}

\* process_optimized_query(user_input, session_id): process_query of the
\* singleton bot
ProcessOptimizedQuery(queries, sessions, elapsed, max_turns, max_searches) ==
    /\ now < max_turns * elapsed
    /\ search_stats.hybrid_searches + search_stats.cache_hits < max_searches
    /\ \E user_input \in queries :
       \E remote \in RemotesFor(user_input) :
       \E category \in {process_query_classify(user_input, State, remote)} :
       \E env \in EnvsFor(user_input, category, default_max_docs, FALSE) :
       \E sc \in {process_query_search(user_input, category, env, State)} :
       \E session_id \in sessions, llm \in LLMOutcomes, fault \in BOOLEAN :
       \E out \in {process_query([user_input |-> user_input,
                                    session_id |-> session_id, llm |-> llm,
                                    fault |-> fault, elapsed |-> elapsed],
                                   State, category, sc)} :
              /\ fault => llm = LLMFailed
              /\ search_cache' = out.st.search_cache
              /\ search_stats' = out.st.search_stats
              /\ self_query_retrievers' = out.st.self_query_retrievers
              /\ session_chains' = out.st.session_chains
              /\ session_metadata' = out.st.session_metadata
              /\ total_requests' = out.st.total_requests
              /\ total_processing_time' = out.st.total_processing_time
              /\ now' = now + elapsed
              /\ ret' = [op |-> "process_query",
                         user_input |-> user_input,
                         session_id |-> session_id,
                         raised |-> out.raised,
                         llm_calls |-> out.llm_calls,
                         llm_failed |-> out.llm_failed,
                         llm_input |-> out.llm_input,
                         prompt |-> out.prompt,
                         history |-> out.history,
                         category |-> out.category,
                         context |-> out.context,
                         result |-> out.result]
              /\ UNCHANGED <<model_id, collections, index_vars>>

\* process_query(user_input, session_id) by itself, outside a request
ProcessQuery(queries, sessions, elapsed, max_turns, max_searches) ==
    /\ ProcessOptimizedQuery(queries, sessions, elapsed, max_turns, max_searches)
    /\ UNCHANGED web_vars

\* search_context(query, category, max_docs), by process_query with the
\* default of max_docs and by test_hybrid_rag_search with max_docs=3.
\* queries[category]: the queries that are searched with the category.
SearchContext(queries, categories, max_docs, max_searches, max_hits, healthy) ==
    /\ search_stats.hybrid_searches < max_searches
    /\ search_stats.cache_hits < max_hits
    /\ \E category \in categories :
       \E query \in queries[category] :
       \E env \in EnvsFor(query, category, max_docs, healthy) :
       \E out \in {search_context(query, category, max_docs, env, search_cache,
                                   search_stats, self_query_retrievers)} :
              /\ search_cache' = out.cache
              /\ search_stats' = out.stats
              /\ self_query_retrievers' = out.retrievers
              /\ ret' = [op |-> "search_context", query |-> query,
                         category |-> category, max_docs |-> max_docs,
                         gate |-> env.gate, direct |-> env.direct,
                         context |-> out.context]
              /\ UNCHANGED <<model_id, collections, session_chains, session_metadata,
                             total_requests, total_processing_time, now, web_vars, index_vars>>

\* HybridRAGSystem.clear_cache
ClearCache ==
    /\ search_cache' = << >>
    /\ ret' = [op |-> "clear_cache"]
    /\ UNCHANGED <<model_id, collections, search_stats, self_query_retrievers,
                   session_chains, session_metadata, total_requests,
                   total_processing_time, now, web_vars, index_vars>>

\* clear_session_memory(session_id), by clear_session_memory_view
ClearSessionMemory(sessions) ==
    \E session_id \in sessions :
       LET out == clear_session_memory(session_chains, session_metadata, session_id)
       IN  /\ session_chains' = out.chains
           /\ session_metadata' = out.metadata
           /\ ret' = [op |-> "clear_session_memory", session_id |-> session_id]
           /\ UNCHANGED <<model_id, collections, search_cache, search_stats,
                          self_query_retrievers, total_requests,
                          total_processing_time, now, web_vars, index_vars>>

\* cleanup_old_sessions()
CleanupOldSessions ==
    LET out == cleanup_old_sessions(session_chains, session_metadata, now)
    IN  /\ session_chains' = out.chains
        /\ session_metadata' = out.metadata
        /\ ret' = [op |-> "cleanup_old_sessions",
                   expired |-> DOMAIN session_metadata \ DOMAIN out.metadata]
        /\ UNCHANGED <<model_id, collections, search_cache, search_stats,
                       self_query_retrievers, total_requests,
                       total_processing_time, now, web_vars, index_vars>>

\* Time passes between two calls.
Tick(step, max_time) ==
    /\ now + step <= max_time
    /\ now' = now + step
    /\ ret' = [op |-> "none"]
    /\ UNCHANGED <<model_id, collections, search_cache, search_stats,
                   self_query_retrievers, session_chains, session_metadata,
                   total_requests, total_processing_time, web_vars, index_vars>>

\* The objects after construction: FastClassifier.__init__,
\* HybridRAGSystem.__init__, SessionBasedConversationManager.__init__,
\* OptimizedTrafficAccidentBot.__init__.
Constructed ==
    /\ model_id \in BOOLEAN
    /\ search_cache = << >>
    /\ search_stats = [direct_searches |-> 0, self_query_searches |-> 0,
                       cache_hits |-> 0, hybrid_searches |-> 0]
    /\ self_query_retrievers = {}
    /\ session_chains = << >>
    /\ session_metadata = << >>
    /\ total_requests = 0
    /\ total_processing_time = 0
    /\ now = 0
    /\ chat_messages = << >>
    /\ requests = << >>
    /\ _sessions = << >>
    /\ collection_cache = << >>

----------------------------------------------------------------------------
(* Spec: turns of a session over a small store *)

MaxTurns == 2
MaxSearches == 2
\* The seconds one turn takes.
TurnSeconds == 1

Sessions == {"sess-A"}
Queries == {QueryKnown, QueryFollowUp, QueryGreeting}

Init ==
    /\ Constructed
    /\ collections = [precedent |-> {DocPrecedent},
                      traffic_law_rag |-> {DocLaw},
                      car_case |-> {},
                      term |-> {DocTerm}]
    /\ source_documents = [term |-> <<DocTerm>>, precedent |-> <<DocPrecedent>>,
                           car_case |-> << >>, law |-> <<DocLaw>>]
    /\ ret = [op |-> "init"]

Turn == ProcessQuery(Queries, Sessions, TurnSeconds, MaxTurns, MaxSearches)
Clear == ClearSessionMemory(Sessions)

Next ==
    \/ Turn
    \/ Clear
    \/ ClearCache

Spec == Init /\ [][Next]_vars

----------------------------------------------------------------------------
(* SpecClassify: classify on the scenario queries and on the phrases of a
   small vocabulary, for every outcome of the remote model *)

MaxWords == 2

\* 판례 / 법률 / 사고 / 관련 / 과실비율 / 안녕하세요 / 반갑습니다여러분
Vocabulary == { <<"pan", "rye">>, <<"beob", "ryul">>, <<"sa", "go">>, <<"gwan", "ryeon">>, <<"gwa", "sil", "bi", "yul">>,
                <<"an", "nyeong", "ha", "se", "yo">>, <<"ban", "gab", "seub", "ni", "da", "yeo", "reo", "bun">> }

\* The phrases of at most n words of the vocabulary, joined by one space.
RECURSIVE Phrases(_)
Phrases(n) ==
    IF n = 0 THEN {<< >>}
    ELSE LET shorter == Phrases(n - 1)
         IN  shorter \cup {IF p = << >> THEN w ELSE p \o <<" ">> \o w :
                              p \in shorter, w \in Vocabulary}

ClassifyQueries ==
    {QueryKnown, QueryAbsent, QueryAccident, QueryLaw, QueryTerm, QueryFollowUp,
     QueryGreeting, QueryEmpty} \cup Phrases(MaxWords)

InitClassify ==
    /\ Constructed
    /\ collections = [precedent |-> {}, traffic_law_rag |-> {}, car_case |-> {},
                      term |-> {}]
    /\ source_documents = [term |-> << >>, precedent |-> << >>,
                           car_case |-> << >>, law |-> << >>]
    /\ ret \in {[op |-> "call", user_input |-> q, remote |-> r] :
                   q \in ClassifyQueries, r \in RemoteOutcomes}

\* classifier.classify(user_input)
Classify ==
    /\ ret.op = "call"
    /\ ret' = [op |-> "classify", user_input |-> ret.user_input,
               remote |-> ret.remote,
               category |-> classify(ret.user_input, model_id, ret.remote)]
    /\ UNCHANGED <<model_id, collections, search_cache, search_stats,
                   self_query_retrievers, session_chains, session_metadata,
                   total_requests, total_processing_time, now, web_vars, index_vars>>

SpecClassify == InitClassify /\ [][Classify]_vars

----------------------------------------------------------------------------
(* SpecSearch: search_context over a store of several documents and over a
   store whose collections are empty, as before the indexer ran *)

MaxSearchCalls == 2
MaxSearchHits == 1

\* test_hybrid_rag_search: search_context(query, category, max_docs=3)
test_max_docs == 3

\* A document whose content is longer than a snippet.
DocTermLong == Doc(<<"gwa", "sil", "sang", "gye", ":", " ">> \o Repeat("x", snippet_chars), [term |-> <<"gwa", "sil", "sang", "gye">>])
DocTermOther == Doc(<<"an", "jeon", "geo", "ri", ":", " ", "ap", "cha", "wa", "ui",
                      " ", "geo", "ri">>, [term |-> <<"an", "jeon", "geo", "ri">>])

\* A query without a citation that holds two self-query triggers of the
\* precedent category (대법원, 법원).
QuerySelf == <<"dae", "beob", "won", " ", "pan", "rye", " ", "geom", "saeg", "hae",
               "jwo">>

SearchCategories == {"precedent", "term"}
SearchQueries ==
    [category \in SearchCategories |->
        IF category = "precedent" THEN {QueryKnown, QueryAbsent, QuerySelf}
        ELSE {QueryTerm}]

InitSearch ==
    /\ Constructed
    /\ collections \in {[precedent |-> {DocPrecedent, DocPrecedentOther},
                       traffic_law_rag |-> {DocLaw},
                       car_case |-> {},
                       term |-> {DocTerm, DocTermLong, DocTermOther}],
                      [precedent |-> {}, traffic_law_rag |-> {}, car_case |-> {},
                       term |-> {}]}
    /\ source_documents = [term |-> <<DocTerm, DocTermLong, DocTermOther>>,
                           precedent |-> <<DocPrecedent, DocPrecedentOther>>,
                           car_case |-> << >>, law |-> <<DocLaw>>]
    /\ ret = [op |-> "init"]

SearchDefault ==
    SearchContext(SearchQueries, SearchCategories, default_max_docs,
                  MaxSearchCalls, MaxSearchHits, FALSE)
SearchTest ==
    SearchContext(SearchQueries, SearchCategories, test_max_docs,
                  MaxSearchCalls, MaxSearchHits, FALSE)

NextSearch ==
    \/ SearchDefault
    \/ SearchTest
    \/ ClearCache

SpecSearch == InitSearch /\ [][NextSearch]_vars

----------------------------------------------------------------------------
(* SpecCache: search_context on ever new queries, until the cache is full *)

MaxCacheQueries == 101
MaxCacheSearches == 101
MaxCacheHits == 1

\* The n-th query: "q" and the number.
NumberedQuery(n) == <<"q">> \o Digits(n)

\* The first query, the one stored last and the next new one.
CacheQueries ==
    LET size == Cardinality(DOMAIN search_cache)
    IN  [category \in {"term"} |->
            {NumberedQuery(n) : n \in {1, Min(size, MaxCacheQueries),
                                       Min(size + 1, MaxCacheQueries)} \ {0}}]

CacheSearch ==
    SearchContext(CacheQueries, {"term"}, test_max_docs,
                  MaxCacheSearches, MaxCacheHits, TRUE)

NextCache ==
    \/ CacheSearch
    \/ ClearCache

SpecCache == Init /\ [][NextCache]_vars

----------------------------------------------------------------------------
(* SpecMemory: many turns of one session *)

MaxMemoryTurns == 9
MaxMemorySearches == 10

MemoryTurn ==
    ProcessQuery({QueryFollowUp}, Sessions, TurnSeconds, MaxMemoryTurns,
                 MaxMemorySearches)

NextMemory ==
    \/ MemoryTurn
    \/ Clear

SpecMemory == Init /\ [][NextMemory]_vars

----------------------------------------------------------------------------
(* views.send_message: one request is three steps, and the steps of several
   requests interleave, since a server thread runs each request and nothing
   in the view or in the bot takes a lock *)

\* JsonResponse({'error': '메시지를 입력해주세요.'}, status=400)
EmptyMessageError == <<"me", "si", "ji", "reul", " ", "ib", "ryeog", "hae", "ju", "se",
                       "yo", ".">>
\* JsonResponse({'error': f'오류가 발생했습니다: {str(e)}'}, status=500); the
\* text of the exception is left out.
ServerError == <<"o_", "ryu", "ga", " ", "bal", "saeng", "haess", "seub", "ni", "da",
                 ":", " ">>

\* A request that has arrived.  pc: where its thread stands; user_row,
\* bot_row: the ids of the ChatMessage rows it created (0: none); status,
\* body: the JsonResponse (status 0: none yet; body: bot_response or error).
NewRequest(session_id, user_message) ==
    [pc |-> "received", session_id |-> session_id, user_message |-> user_message,
     user_row |-> 0, bot_row |-> 0, result |-> NoResult, status |-> 0,
     body |-> << >>]

\* ChatMessage.objects.create(session=session, sender=sender, content=content)
ChatMessageCreate(rows, session_id, sender, content) ==
    Append(rows, [session_id |-> session_id, sender |-> sender, content |-> content])

\* send_message up to the call of process_optimized_query: the message is
\* stripped, an empty one is answered with 400, else the user's message is
\* stored; an exception of the database is answered with 500.  The sessions
\* are those that have a ChatSession row, which _get_or_create_session finds.
SendMessageReceive(messages, sessions, max_requests) ==
    /\ Len(requests) < max_requests
    /\ \E message \in messages, session_id \in sessions, db_ok \in BOOLEAN :
       \E user_message \in {Strip(message)} :
       \E request \in {NewRequest(session_id, user_message)} :
          /\ IF user_message = << >>
             THEN /\ db_ok
                  /\ requests' = Append(requests,
                         [request EXCEPT !.pc = "done", !.status = 400,
                                         !.body = EmptyMessageError])
                  /\ UNCHANGED chat_messages
             ELSE IF ~db_ok
             THEN /\ requests' = Append(requests,
                         [request EXCEPT !.pc = "done", !.status = 500,
                                         !.body = ServerError])
                  /\ UNCHANGED chat_messages
             ELSE /\ chat_messages' = ChatMessageCreate(chat_messages, session_id,
                                                         "user", user_message)
                  /\ requests' = Append(requests,
                         [request EXCEPT !.pc = "stored",
                                         !.user_row = Len(chat_messages) + 1])
          /\ ret' = [op |-> "send_message", request |-> Len(requests) + 1]
    /\ UNCHANGED <<model_id, collections, search_cache, search_stats,
                   self_query_retrievers, session_chains, session_metadata,
                   total_requests, total_processing_time, now, _sessions,
                   index_vars>>

\* result = process_optimized_query(user_message, session_id_str)
SendMessageProcess(elapsed, max_turns, max_searches) ==
    \E r \in DOMAIN requests :
       /\ requests[r].pc = "stored"
       /\ ProcessOptimizedQuery({requests[r].user_message}, {requests[r].session_id},
                                elapsed, max_turns, max_searches)
       /\ requests' = [requests EXCEPT ![r].pc = "processed",
                                       ![r].result = ret'.result]
       /\ UNCHANGED <<chat_messages, _sessions>>

\* send_message after the call: the bot's message is stored, the session row
\* is saved and the response is returned; an exception of the database is
\* answered with 500.
SendMessageRespond ==
    \E r \in DOMAIN requests, db_ok \in BOOLEAN :
       /\ requests[r].pc = "processed"
       /\ LET bot_response == requests[r].result.response
          IN  IF db_ok
              THEN /\ chat_messages' = ChatMessageCreate(chat_messages,
                                           requests[r].session_id, "bot", bot_response)
                   /\ requests' = [requests EXCEPT
                                      ![r].pc = "done", ![r].status = 200,
                                      ![r].bot_row = Len(chat_messages) + 1,
                                      ![r].body = bot_response]
              ELSE /\ requests' = [requests EXCEPT
                                      ![r].pc = "done", ![r].status = 500,
                                      ![r].body = ServerError]
                   /\ UNCHANGED chat_messages
       /\ ret' = [op |-> "send_message", request |-> r]
       /\ UNCHANGED <<model_id, collections, search_cache, search_stats,
                      self_query_retrievers, session_chains, session_metadata,
                      total_requests, total_processing_time, now, _sessions,
                   index_vars>>

----------------------------------------------------------------------------
(* SpecSend: requests to send_message and to clear_session_memory_view *)

MaxSendRequests == 2
MaxSendSearches == 2

SendSessions == {"sess-A", "sess-B"}
\* A message, a message of blanks and no message.
SendMessages == {QueryFollowUp, <<" ">>, QueryEmpty}

\* clear_session_memory_view(request, session_id), also before the session's
\* first turn, when no chain was made for the id
ClearView == ClearSessionMemory(SendSessions)

NextSend ==
    \/ SendMessageReceive(SendMessages, SendSessions, MaxSendRequests)
    \/ SendMessageProcess(TurnSeconds, MaxSendRequests, MaxSendSearches)
    \/ SendMessageRespond
    \/ ClearView

SpecSend == Init /\ [][NextSend]_vars

----------------------------------------------------------------------------
(* SpecSessions: turns of two sessions, hours that pass, and the sweep that
   views.index starts *)

MaxSessionTurns == 2
MaxSessionDays == 1

\* The age a session may have, in seconds, and the time the run ends.
MaxAgeSeconds == max_age_hours * seconds_per_hour
MaxSessionSeconds == MaxSessionDays * MaxAgeSeconds + MaxSessionTurns * TurnSeconds

NextSessions ==
    \/ ProcessQuery({QueryFollowUp}, SendSessions, TurnSeconds, MaxSessionSeconds,
                    MaxSessionTurns)
    \/ CleanupOldSessions
    \/ Tick(MaxAgeSeconds \div 2, MaxSessionSeconds)
    \/ Tick(MaxAgeSeconds \div 2 - 1, MaxSessionSeconds)

SpecSessions == Init /\ [][NextSessions]_vars

----------------------------------------------------------------------------
(* SpecClear: a server with one worker, which takes the next request to
   send_message when the last one is answered, and requests to
   clear_session_memory_view in between *)

NextClear ==
    \/ /\ \A r \in DOMAIN requests : requests[r].pc = "done"
       /\ SendMessageReceive({QueryAccident}, SendSessions, MaxSendRequests)
    \/ SendMessageProcess(TurnSeconds, MaxSendRequests, MaxSendSearches)
    \/ SendMessageRespond
    \/ ClearView

SpecClear == Init /\ [][NextClear]_vars

----------------------------------------------------------------------------
(* SpecMatch: _is_exact_case_match on pairs of short strings *)

MaxCitationLen == 2

\* A digit, a case letter, a blank and a Latin letter in both cases.
CitationCharacters == {"1", <<"da">>[1], " ", "D", "d"}

\* The strings of at most n of these characters.
RECURSIVE CitationTexts(_)
CitationTexts(n) ==
    IF n = 0 THEN {<< >>}
    ELSE LET shorter == CitationTexts(n - 1)
         IN  shorter \cup {Append(s, c) : s \in shorter, c \in CitationCharacters}

\* The short strings and the citations of the scenarios:
\* 2019다12345, 2019다1234, 대법원 2019다12345
CitationStrings ==
    CitationTexts(MaxCitationLen)
        \cup {<<"2", "0", "1", "9", "da", "1", "2", "3", "4", "5">>, <<"2", "0", "1", "9", "da", "1", "2", "3", "4">>, <<"dae", "beob", "won", " ", "2", "0", "1", "9", "da", "1",
                                               "2", "3", "4", "5">>}

InitMatch ==
    /\ Constructed
    /\ collections = [precedent |-> {}, traffic_law_rag |-> {}, car_case |-> {},
                      term |-> {}]
    /\ source_documents = [term |-> << >>, precedent |-> << >>,
                           car_case |-> << >>, law |-> << >>]
    /\ ret \in {[op |-> "call", input_case |-> a, db_case |-> b] :
                   a \in CitationStrings, b \in CitationStrings}

\* self._is_exact_case_match(input_case, db_case)
ExactCaseMatch ==
    /\ ret.op = "call"
    /\ ret' = [op |-> "is_exact_case_match", input_case |-> ret.input_case,
               db_case |-> ret.db_case,
               result |-> is_exact_case_match(ret.input_case, ret.db_case)]
    /\ UNCHANGED <<model_id, collections, search_cache, search_stats,
                   self_query_retrievers, session_chains, session_metadata,
                   total_requests, total_processing_time, now, web_vars, index_vars>>

SpecMatch == InitMatch /\ [][ExactCaseMatch]_vars

----------------------------------------------------------------------------
(* VectorDBManager: the indexer *)

\* DocumentProcessor.load_and_convert_all_documents: the categories, in the
\* order of the dict
SourceCategories == <<"term", "precedent", "car_case", "law">>

\* VectorDBManager.COLLECTIONS.get(category, category)
CollectionName(category) == IF category = "law" THEN "traffic_law_rag" ELSE category

\* batch_size = 50
batch_size == 50

\* The handle of a collection: the Chroma object.  Chroma(None) stands for
\* None, where a handle is expected.
Chroma(collection_name) == [collection_name |-> collection_name]

\* Chroma.from_documents / add_documents: every document is stored under a new
\* id, whether the collection holds an equal document or not.
AddDocuments(collection, docs) ==
    collection \cup {[page_content |-> docs[i].page_content,
                      metadata |-> docs[i].metadata,
                      id |-> Cardinality(collection) + i] : i \in 1..Len(docs)}

\* get_vector_db(collection_name): the cached handle, else a handle of a
\* collection that holds documents, which is cached, else None.
\* [db, cache]
get_vector_db(cache, store, collection_name) ==
    IF collection_name \in DOMAIN cache
    THEN [db |-> cache[collection_name], cache |-> cache]
    ELSE IF collection_name \in DOMAIN store /\ store[collection_name] # {}
    THEN [db |-> Chroma(collection_name),
          cache |-> (collection_name :> Chroma(collection_name)) @@ cache]
    ELSE [db |-> Chroma(None), cache |-> cache]

\* docs_to_chroma_db(docs, collection_name): the collection that holds
\* documents is loaded as it is; else it is made of docs, batch by batch.
\* batches: the batches the embedding model answers for before it fails.
\* [raised, cache, store]
docs_to_chroma_db(cache, store, docs, collection_name, batches) ==
    LET all == (Len(docs) + batch_size - 1) \div batch_size
        cached == (collection_name :> Chroma(collection_name)) @@ cache
        stored == IF collection_name \in DOMAIN store THEN store[collection_name]
                  ELSE {}
    IN  IF collection_name \in DOMAIN store /\ store[collection_name] # {}
        THEN [raised |-> FALSE, cache |-> cached, store |-> store]
        ELSE IF docs = << >>
        THEN [raised |-> TRUE, cache |-> cache, store |-> store]
        ELSE IF batches < all
        THEN [raised |-> TRUE, cache |-> cache,
              store |-> (collection_name :>
                            AddDocuments(stored, Take(docs, batches * batch_size))) @@ store]
        ELSE [raised |-> FALSE, cache |-> cached,
              store |-> (collection_name :> AddDocuments(stored, docs)) @@ store]

\* The loop of initialize_all_vector_dbs from the i-th category on, with the
\* state the categories before it left.  env[category]: the batches of the
\* category that get embedded.
\* [raised, cache, store, vector_dbs]
RECURSIVE InitializeFrom(_, _, _)
InitializeFrom(i, acc, run) ==
    IF i > Len(SourceCategories) \/ acc.raised THEN acc
    ELSE LET category == SourceCategories[i]
             docs == run.documents[category]
             collection_name == CollectionName(category)
             existing == get_vector_db(acc.cache, acc.store, collection_name)
             dropped == IF run.force_rebuild
                        THEN [c \in DOMAIN acc.cache \ {collection_name} |-> acc.cache[c]]
                        ELSE existing.cache
             made == docs_to_chroma_db(dropped, acc.store, docs, collection_name,
                                       run.env[category])
         IN  IF docs = << >>
             THEN InitializeFrom(i + 1, acc, run)
             ELSE IF ~run.force_rebuild /\ existing.db # Chroma(None)
             THEN InitializeFrom(i + 1,
                      [acc EXCEPT !.cache = existing.cache,
                                  !.vector_dbs = @ \cup {category}], run)
             ELSE InitializeFrom(i + 1,
                      [raised |-> made.raised, cache |-> made.cache,
                       store |-> made.store,
                       vector_dbs |-> IF made.raised THEN acc.vector_dbs
                                      ELSE acc.vector_dbs \cup {category}], run)

\* initialize_all_vector_dbs that makes every collection of the documents
\* anew, whatever the store holds.
initialize_all_vector_dbs_adding(cache, store, documents, force_rebuild, env) ==
    [raised |-> FALSE, cache |-> cache, vector_dbs |-> {},
     store |-> [c \in DOMAIN store |->
                   IF \E i \in DOMAIN SourceCategories :
                          CollectionName(SourceCategories[i]) = c
                   THEN AddDocuments(store[c],
                            documents[SourceCategories[
                                CHOOSE i \in DOMAIN SourceCategories :
                                    CollectionName(SourceCategories[i]) = c]])
                   ELSE store[c]]]

\* initialize_all_vector_dbs(metadata_path, force_rebuild)
initialize_all_vector_dbs(cache, store, documents, force_rebuild, env) ==
    InitializeFrom(1, [raised |-> FALSE, cache |-> cache, store |-> store,
                       vector_dbs |-> {}],
                   [documents |-> documents, force_rebuild |-> force_rebuild,
                    env |-> env])

\* The batches of a category's documents.
Batches(docs) == (Len(docs) + batch_size - 1) \div batch_size

\* What the embedding model does during one run: it answers for every batch,
\* or it fails at one category, after some of its batches.
EmbeddingEnvs(documents) ==
    LET fine == [category \in DOMAIN documents |-> Batches(documents[category])]
    IN  {fine} \cup UNION {{[fine EXCEPT ![category] = n] :
                                  n \in 0..(Batches(documents[category]) - 1)} :
                              category \in DOMAIN documents}

\* python manage.py initialize_vectordb [--force-rebuild]
InitializeAllVectorDbs(force_rebuild) ==
    /\ \E env \in EmbeddingEnvs(source_documents) :
       \E out \in {initialize_all_vector_dbs(collection_cache, collections,
                                             source_documents, force_rebuild, env)} :
          /\ collections' = out.store
          /\ collection_cache' = out.cache
          /\ ret' = [op |-> "initialize_all_vector_dbs",
                     force_rebuild |-> force_rebuild, raised |-> out.raised,
                     vector_dbs |-> out.vector_dbs]
    /\ UNCHANGED <<model_id, search_cache, search_stats, self_query_retrievers,
                   session_chains, session_metadata, total_requests,
                   total_processing_time, now, web_vars, source_documents>>

----------------------------------------------------------------------------
(* SpecIndex: runs of the indexer, with and without --force-rebuild, over a
   store in which any of the collections may hold a document of an earlier
   run, and over metadata files that may have changed since *)

\* A document as the store holds it.
Stored(doc, id) == [page_content |-> doc.page_content, metadata |-> doc.metadata,
                    id |-> id]

InitIndex ==
    /\ Constructed
    /\ collections \in
          {[term |-> term, precedent |-> precedent, car_case |-> car_case,
            traffic_law_rag |-> law] :
               term \in {{}, {Stored(DocTermLong, 1)}},
               precedent \in {{}, {Stored(DocPrecedentOther, 1)}},
               car_case \in {{}, {Stored(DocAccident, 1)}},
               law \in {{}, {Stored(DocLaw, 1)}}}
    /\ source_documents \in
          {[term |-> term, precedent |-> <<DocPrecedent>>, car_case |-> car_case,
            law |-> <<DocLaw>>] :
               term \in {<< >>, <<DocTerm, DocTermOther>>},
               car_case \in {<< >>, <<DocAccident>>}}
    /\ ret = [op |-> "init"]

\* A new process: get_vector_db_manager makes a VectorDBManager, whose cache
\* is empty, over the store the last process left.
NewVectorDBManager ==
    /\ collection_cache # << >>
    /\ collection_cache' = << >>
    /\ UNCHANGED <<model_id, collections, search_cache, search_stats,
                   self_query_retrievers, session_chains, session_metadata,
                   total_requests, total_processing_time, now, ret, web_vars,
                   source_documents>>

NextIndex ==
    \/ InitializeAllVectorDbs(FALSE)
    \/ InitializeAllVectorDbs(TRUE)
    \/ NewVectorDBManager

SpecIndex == InitIndex /\ [][NextIndex]_vars

----------------------------------------------------------------------------
(* SpecManager: the four operations of SessionBasedConversationManager,
   called one after the other in any order on two session ids, with hours
   that pass in between *)

ManagerCategories == {"accident", "law"}

\* The time the run ends, and the interactions a session counts at most.
MaxManagerSeconds == MaxSessionDays * MaxAgeSeconds + MaxSessionTurns
MaxManagerInteractions == 2

\* conversation_manager.get_or_create_chain(session_id, category)
GetOrCreateChain(sessions, categories) ==
    \E session_id \in sessions, category \in categories :
    \E out \in {get_or_create_chain(session_chains, session_metadata, session_id,
                                    category, now)} :
       /\ session_chains' = out.chains
       /\ session_metadata' = out.metadata
       /\ ret' = [op |-> "get_or_create_chain", session_id |-> session_id,
                  category |-> category]
       /\ UNCHANGED <<model_id, collections, search_cache, search_stats,
                      self_query_retrievers, total_requests,
                      total_processing_time, now, web_vars, index_vars>>

\* conversation_manager.update_session_stats(session_id, category, total_time)
UpdateSessionStats(sessions, categories, processing_time, max_interactions) ==
    \E session_id \in sessions, category \in categories :
       /\ session_id \in DOMAIN session_metadata =>
             session_metadata[session_id].total_interactions < max_interactions
       /\ session_metadata' = update_session_stats(session_metadata, session_id,
                                                   category, processing_time)
       /\ ret' = [op |-> "update_session_stats", session_id |-> session_id,
                  category |-> category]
       /\ UNCHANGED <<model_id, collections, search_cache, search_stats,
                      self_query_retrievers, session_chains, total_requests,
                      total_processing_time, now, web_vars, index_vars>>

NextManager ==
    \/ GetOrCreateChain(SendSessions, ManagerCategories)
    \/ UpdateSessionStats(SendSessions, ManagerCategories, TurnSeconds,
                          MaxManagerInteractions)
    \/ ClearSessionMemory(SendSessions)
    \/ CleanupOldSessions
    \/ Tick(MaxAgeSeconds \div 2 + 1, MaxManagerSeconds)

SpecManager == Init /\ [][NextManager]_vars

----------------------------------------------------------------------------
(* SpecTurns: process_query calls that run at the same time, as the threads
   of a server run them on the singleton bot.  No lock is taken anywhere in
   process_query or in the session manager, so a thread can be interrupted
   between any two statements; requests[i] is the i-th thread and holds its
   position and its local variables.  A chain or a metadata dict is an
   object: the one a session id maps to lives in session_chains or
   session_metadata, the one that was replaced there lives on in the thread
   that made it, for the threads that still hold it. *)

MaxThreads == 2

NoChain == [messages |-> << >>, prompt |-> "none"]
NoMetadata == [created_at |-> 0, last_activity |-> 0, total_interactions |-> 0,
               categories_used |-> << >>, total_processing_time |-> 0,
               primary_category |-> "none"]

\* A call of process_query(user_input, session_id): start_time = time.time()
NewTurn(user_input, session_id, start_time) ==
    [pc |-> "called", user_input |-> user_input, session_id |-> session_id,
     start_time |-> start_time, category |-> None, context |-> << >>,
     chain |-> 0, metadata |-> 0, total_interactions |-> 0,
     created |-> FALSE, owns_chain |-> FALSE, owns_metadata |-> FALSE,
     orphan_chain |-> NoChain, orphan_metadata |-> NoMetadata,
     prompt |-> "none", response |-> << >>, result |-> NoResult]

\* The thread whose chain, or metadata dict, is the one the session id maps to.
ChainOwner(session_id) ==
    IF \E i \in DOMAIN requests :
          requests[i].session_id = session_id /\ requests[i].owns_chain
    THEN CHOOSE i \in DOMAIN requests :
             requests[i].session_id = session_id /\ requests[i].owns_chain
    ELSE 0
MetadataOwner(session_id) ==
    IF \E i \in DOMAIN requests :
          requests[i].session_id = session_id /\ requests[i].owns_metadata
    THEN CHOOSE i \in DOMAIN requests :
             requests[i].session_id = session_id /\ requests[i].owns_metadata
    ELSE 0

\* The chain, or metadata dict, that thread k made.
ChainOf(k) ==
    IF requests[k].owns_chain THEN session_chains[requests[k].session_id]
    ELSE requests[k].orphan_chain
MetadataOf(k) ==
    IF requests[k].owns_metadata THEN session_metadata[requests[k].session_id]
    ELSE requests[k].orphan_metadata

\* A thread enters process_query.
TurnCall(queries, sessions, max_threads) ==
    /\ Len(requests) < max_threads
    /\ \E user_input \in queries, session_id \in sessions :
          requests' = Append(requests, NewTurn(user_input, session_id, now))
    /\ ret' = [op |-> "turn", thread |-> Len(requests) + 1]
    /\ UNCHANGED <<model_id, collections, search_cache, search_stats,
                   self_query_retrievers, session_chains, session_metadata,
                   total_requests, total_processing_time, now, chat_messages,
                   _sessions, index_vars>>

\* category = self.classifier.classify(user_input)
\* context = self.rag_system.search_context(user_input, category)
TurnSearch ==
    \E i \in DOMAIN requests :
       /\ requests[i].pc = "called"
       /\ \E remote \in RemotesFor(requests[i].user_input) :
          \E category \in {process_query_classify(requests[i].user_input, State, remote)} :
          \E env \in EnvsFor(requests[i].user_input, category, default_max_docs, TRUE) :
          \E sc \in {process_query_search(requests[i].user_input, category, env, State)} :
             /\ search_cache' = sc.cache
             /\ search_stats' = sc.stats
             /\ self_query_retrievers' = sc.retrievers
             /\ requests' = [requests EXCEPT ![i].pc = "searched",
                                             ![i].category = category,
                                             ![i].context = sc.context]
       /\ ret' = [op |-> "turn", thread |-> i]
       /\ UNCHANGED <<model_id, collections, session_chains, session_metadata,
                      total_requests, total_processing_time, now, chat_messages,
                      _sessions, index_vars>>

\* get_or_create_chain: if session_id not in self.session_chains
TurnLookup ==
    \E i \in DOMAIN requests :
       /\ requests[i].pc = "searched"
       /\ requests' = [requests EXCEPT ![i].pc =
                          IF requests[i].session_id \notin DOMAIN session_chains
                          THEN "new" ELSE "existing"]
       /\ ret' = [op |-> "turn", thread |-> i]
       /\ UNCHANGED <<model_id, collections, search_cache, search_stats,
                      self_query_retrievers, session_chains, session_metadata,
                      total_requests, total_processing_time, now, chat_messages,
                      _sessions, index_vars>>

\* get_or_create_chain: self.session_chains[session_id] = chain, with a new
\* memory and the category's prompt.  The chain that was there is replaced.
TurnStoreChain ==
    \E i \in DOMAIN requests :
    \E session_id \in {requests[i].session_id} :
       /\ requests[i].pc = "new"
       /\ session_chains' = (session_id :> [messages |-> << >>,
                                            prompt |-> requests[i].category])
                               @@ session_chains
       /\ requests' =
             [j \in DOMAIN requests |->
                 IF j = i
                 THEN [requests[j] EXCEPT !.pc = "new_metadata", !.created = TRUE,
                                          !.owns_chain = TRUE]
                 ELSE IF requests[j].session_id = session_id /\ requests[j].owns_chain
                 THEN [requests[j] EXCEPT !.owns_chain = FALSE,
                                          !.orphan_chain = session_chains[session_id]]
                 ELSE requests[j]]
       /\ ret' = [op |-> "turn", thread |-> i]
       /\ UNCHANGED <<model_id, collections, search_cache, search_stats,
                      self_query_retrievers, session_metadata, total_requests,
                      total_processing_time, now, chat_messages, _sessions,
                      index_vars>>

\* get_or_create_chain: self.session_metadata[session_id] = {...}.  The dict
\* that was there is replaced.
TurnStoreMetadata ==
    \E i \in DOMAIN requests :
    \E session_id \in {requests[i].session_id} :
       /\ requests[i].pc = "new_metadata"
       /\ session_metadata' =
             (session_id :> [created_at |-> now, last_activity |-> now,
                             total_interactions |-> 0,
                             categories_used |-> << >>,
                             total_processing_time |-> 0,
                             primary_category |-> requests[i].category])
                @@ session_metadata
       /\ requests' =
             [j \in DOMAIN requests |->
                 IF j = i
                 THEN [requests[j] EXCEPT !.pc = "touch", !.owns_metadata = TRUE]
                 ELSE IF requests[j].session_id = session_id /\ requests[j].owns_metadata
                 THEN [requests[j] EXCEPT !.owns_metadata = FALSE,
                                          !.orphan_metadata = session_metadata[session_id]]
                 ELSE requests[j]]
       /\ ret' = [op |-> "turn", thread |-> i]
       /\ UNCHANGED <<model_id, collections, search_cache, search_stats,
                      self_query_retrievers, session_chains, total_requests,
                      total_processing_time, now, chat_messages, _sessions,
                      index_vars>>

\* get_or_create_chain, else branch:
\* current_category = self.session_metadata[session_id].get(...) raises
\* KeyError while the thread that stored the chain has not stored the
\* metadata; process_query's except clause answers with the error response.
TurnReadCategory ==
    \E i \in DOMAIN requests :
       /\ requests[i].pc = "existing"
       /\ requests' =
             IF requests[i].session_id \in DOMAIN session_metadata
             THEN [requests EXCEPT ![i].pc = "set_prompt"]
             ELSE [requests EXCEPT ![i].pc = "done",
                                   ![i].result = generate_error_response]
       /\ ret' = [op |-> "turn", thread |-> i]
       /\ UNCHANGED <<model_id, collections, search_cache, search_stats,
                      self_query_retrievers, session_chains, session_metadata,
                      total_requests, total_processing_time, now, chat_messages,
                      _sessions, index_vars>>

\* get_or_create_chain, else branch:
\* self.session_chains[session_id].prompt = prompt_template
\* self.session_metadata[session_id]['primary_category'] = category
TurnSetPrompt ==
    \E i \in DOMAIN requests :
       /\ requests[i].pc = "set_prompt"
       /\ session_chains' = [session_chains EXCEPT
                                ![requests[i].session_id].prompt = requests[i].category]
       /\ session_metadata' = [session_metadata EXCEPT
                                  ![requests[i].session_id].primary_category =
                                      requests[i].category]
       /\ requests' = [requests EXCEPT ![i].pc = "touch"]
       /\ ret' = [op |-> "turn", thread |-> i]
       /\ UNCHANGED <<model_id, collections, search_cache, search_stats,
                      self_query_retrievers, total_requests,
                      total_processing_time, now, chat_messages, _sessions,
                      index_vars>>

\* get_or_create_chain: self.session_metadata[session_id]['last_activity'] =
\* time.time(); return self.session_chains[session_id]
TurnTouch ==
    \E i \in DOMAIN requests :
       /\ requests[i].pc = "touch"
       /\ session_metadata' = [session_metadata EXCEPT
                                  ![requests[i].session_id].last_activity = now]
       /\ requests' = [requests EXCEPT ![i].pc = "got_chain",
                                       ![i].chain = ChainOwner(requests[i].session_id)]
       /\ ret' = [op |-> "turn", thread |-> i]
       /\ UNCHANGED <<model_id, collections, search_cache, search_stats,
                      self_query_retrievers, session_chains, total_requests,
                      total_processing_time, now, chat_messages, _sessions,
                      index_vars>>

\* response = chain.predict(input=enhanced_input), or the fallback response
\* when the call of the LLM failed.  The chain is the object the thread got
\* from get_or_create_chain, with the prompt it has by now.
TurnPredict(elapsed) ==
    \E i \in DOMAIN requests :
    \E k \in {requests[i].chain} :
    \E session_id \in {requests[i].session_id} :
    \E llm \in LLMOutcomes :
    \E chain \in {IF k = 0 THEN NoChain ELSE ChainOf(k)} :
    \E predicted \in {chain_predict(chain,
                          enhanced_input(requests[i].user_input, requests[i].context),
                          llm)} :
    \E turn \in {[requests[i] EXCEPT
                    !.pc = "predicted",
                    !.prompt = chain.prompt,
                    !.response =
                        IF predicted.output = LLMFailed
                        THEN generate_quick_fallback_response(requests[i].user_input,
                                                              requests[i].category)
                        ELSE predicted.output]} :
       /\ requests[i].pc = "got_chain"
       /\ session_chains' =
             IF requests[k].owns_chain
             THEN [session_chains EXCEPT ![session_id].messages = predicted.messages]
             ELSE session_chains
       /\ requests' =
             IF requests[k].owns_chain
             THEN [requests EXCEPT ![i] = turn]
             ELSE IF k = i
             THEN [requests EXCEPT ![i] =
                      [turn EXCEPT !.orphan_chain.messages = predicted.messages]]
             ELSE [requests EXCEPT ![i] = turn,
                                   ![k].orphan_chain.messages = predicted.messages]
       /\ now' = now + elapsed
       /\ ret' = [op |-> "turn", thread |-> i]
       /\ UNCHANGED <<model_id, collections, search_cache, search_stats,
                      self_query_retrievers, session_metadata, total_requests,
                      total_processing_time, chat_messages, _sessions,
                      index_vars>>

\* update_session_stats: metadata = self.session_metadata[session_id], and
\* the read of metadata['total_interactions'] += 1
TurnReadStats ==
    \E i \in DOMAIN requests :
    \E k \in {MetadataOwner(requests[i].session_id)} :
       /\ requests[i].pc = "predicted"
       /\ requests' = [requests EXCEPT
                          ![i].pc = "stats_read",
                          ![i].metadata = k,
                          ![i].total_interactions = MetadataOf(k).total_interactions]
       /\ ret' = [op |-> "turn", thread |-> i]
       /\ UNCHANGED <<model_id, collections, search_cache, search_stats,
                      self_query_retrievers, session_chains, session_metadata,
                      total_requests, total_processing_time, now, chat_messages,
                      _sessions, index_vars>>

\* update_session_stats: the write of metadata['total_interactions'] += 1 and
\* the statements after it; self.total_requests += 1;
\* self.total_processing_time += total_time; return {...}
TurnWriteStats ==
    \E i \in DOMAIN requests :
    \E k \in {requests[i].metadata} :
    \E session_id \in {requests[i].session_id} :
    \E total_time \in {now - requests[i].start_time} :
    \E before \in {IF k = 0 THEN NoMetadata ELSE MetadataOf(k)} :
    \E used \in {before.categories_used} :
    \E after \in {[before EXCEPT
                     !.total_interactions = requests[i].total_interactions + 1,
                     !.total_processing_time = @ + total_time,
                     !.categories_used =
                         (requests[i].category :>
                             ((IF requests[i].category \in DOMAIN used
                               THEN used[requests[i].category] ELSE 0) + 1)) @@ used]} :
    \E turn \in {[requests[i] EXCEPT
                    !.pc = "done",
                    !.result = [category |-> requests[i].category,
                                response |-> Strip(requests[i].response),
                                context_used |-> requests[i].context # << >>,
                                error |-> FALSE]]} :
       /\ requests[i].pc = "stats_read"
       /\ session_metadata' =
             IF requests[k].owns_metadata
             THEN [session_metadata EXCEPT ![session_id] = after]
             ELSE session_metadata
       /\ requests' =
             IF requests[k].owns_metadata
             THEN [requests EXCEPT ![i] = turn]
             ELSE IF k = i
             THEN [requests EXCEPT ![i] = [turn EXCEPT !.orphan_metadata = after]]
             ELSE [requests EXCEPT ![i] = turn, ![k].orphan_metadata = after]
       /\ total_requests' = total_requests + 1
       /\ total_processing_time' = total_processing_time + total_time
       /\ ret' = [op |-> "turn", thread |-> i]
       /\ UNCHANGED <<model_id, collections, search_cache, search_stats,
                      self_query_retrievers, session_chains, now, chat_messages,
                      _sessions, index_vars>>

TurnQueries == {QueryAccident, QueryLaw}

NextTurns ==
    \/ TurnCall(TurnQueries, Sessions, MaxThreads)
    \/ TurnSearch
    \/ TurnLookup
    \/ TurnStoreChain
    \/ TurnStoreMetadata
    \/ TurnReadCategory
    \/ TurnSetPrompt
    \/ TurnTouch
    \/ TurnPredict(TurnSeconds)
    \/ TurnReadStats
    \/ TurnWriteStats

SpecTurns == Init /\ [][NextTurns]_vars

----------------------------------------------------------------------------
(* DocumentProcessor: the documents the indexer makes of the metadata files *)

\* json null, and a key a JSON object does not have: item.get(key) is None
JsonNull == <<"null">>
ItemGet(item, key) == IF key \in DOMAIN item THEN item[key] ELSE JsonNull

\* METADATA_KEYS['ACCIDENT_CASE'], in the order of a car_to_car.json item:
\* the key of the model and the key's text
AccidentCaseKeys ==
    <<[key |-> "sageon ID", text |-> <<"sa", "geon", " ", "I", "D">>],
      [key |-> "sageon jemog", text |-> <<"sa", "geon", " ", "je", "mog">>],
      [key |-> "sagosanghwang", text |-> <<"sa", "go", "sang", "hwang">>],
      [key |-> "gibon gwasilbiyul", text |-> <<"gi", "bon", " ", "gwa", "sil", "bi", "yul">>],
      [key |-> "keiseubyeol gwasilbiyul jojeongyesi", text |-> <<"ke", "i_", "seu", "byeol", " ", "gwa", "sil", "bi", "yul", " ",
                                                                 "jo", "jeong", "ye", "si">>],
      [key |-> "gwanryeon beobgyu", text |-> <<"gwan", "ryeon", " ", "beob", "gyu">>],
      [key |-> "chamgo panrye", text |-> <<"cham", "go", " ", "pan", "rye">>],
      [key |-> "gibon gwasilbiyul haeseol", text |-> <<"gi", "bon", " ", "gwa", "sil", "bi", "yul", " ", "hae", "seol">>]>>

\* sep.join(prefix + text for text in texts[i:])
RECURSIVE JoinTexts(_, _, _, _)
JoinTexts(texts, i, sep, prefix) ==
    IF i > Len(texts) THEN << >>
    ELSE prefix \o texts[i] \o (IF i < Len(texts) THEN sep ELSE << >>)
         \o JoinTexts(texts, i + 1, sep, prefix)

\* json.dumps(item, ensure_ascii=False) of an object whose values are
\* strings or null
JsonDumps(item) ==
    LET present == SelectSeq(AccidentCaseKeys, LAMBDA k : k.key \in DOMAIN item)
        member(k) == <<"\"">> \o k.text \o <<"\"", ":", " ">>
                     \o (IF item[k.key] = JsonNull THEN <<"n", "u", "l", "l">>
                         ELSE <<"\"">> \o item[k.key] \o <<"\"">>)
    IN  <<"{">> \o JoinTexts([i \in DOMAIN present |-> member(present[i])], 1,
                              <<",", " ">>, << >>)
        \o <<"}">>

\* convert_car_case_to_docs.safe_value, of a string or None
safe_value(value) == IF value = JsonNull THEN << >> ELSE value

\* convert_term_to_docs
convert_term_to_docs(data_list) ==
    [i \in DOMAIN data_list |->
        Doc(data_list[i].term \o <<" ", ":", " ">> \o data_list[i].desc,
            [term |-> data_list[i].term])]

\* convert_precedent_to_docs
convert_precedent_to_docs(data_list) ==
    [i \in DOMAIN data_list |->
        Doc(data_list[i].court \o <<" ">> \o data_list[i].case_id
                \o <<" ", ":", " ">> \o data_list[i].content,
            [court |-> data_list[i].court, case_id |-> data_list[i].case_id])]

\* convert_car_case_to_docs
convert_car_case_to_docs(data_list) ==
    [i \in DOMAIN data_list |->
        Doc(JsonDumps(data_list[i]),
            [type |-> <<"c", "a", "r", "_", "c", "a", "s", "e">>,
             id |-> safe_value(ItemGet(data_list[i], "sageon ID")),
             title |-> safe_value(ItemGet(data_list[i], "sageon jemog")),
             situation |-> safe_value(ItemGet(data_list[i], "sagosanghwang")),
             base_ratio |-> safe_value(ItemGet(data_list[i], "gibon gwasilbiyul")),
             modifiers |-> safe_value(ItemGet(data_list[i],
                                              "keiseubyeol gwasilbiyul jojeongyesi")),
             load_traffic_law |-> safe_value(ItemGet(data_list[i], "gwanryeon beobgyu")),
             precedent |-> safe_value(ItemGet(data_list[i], "chamgo panrye")),
             reason |-> safe_value(ItemGet(data_list[i], "gibon gwasilbiyul haeseol"))])]

\* s.split(c)[n], n = 0 or 1, of a string that holds c when n = 1
SplitPart(s, c, n) ==
    LET at == {j \in 1..Len(s) : s[j] = c}
        first == IF at = {} THEN Len(s) + 1
                 ELSE CHOOSE j \in at : \A k \in at : j <= k
        rest == {j \in at : j > first}
        second == IF rest = {} THEN Len(s) + 1
                  ELSE CHOOSE j \in rest : \A k \in rest : j <= k
    IN  IF n = 0 THEN SubSeq(s, 1, first - 1) ELSE SubSeq(s, first + 1, second - 1)

\* The metadata every document of an article carries: article_id,
\* article_title, article_number, article_name
ArticleMetadata(article) ==
    LET article_title == article.title
        open == \E j \in DOMAIN article_title : article_title[j] = "("
        close == \E j \in DOMAIN article_title : article_title[j] = ")"
    IN  [article_id |-> article.id,
         article_title |-> article_title,
         article_number |-> IF open THEN Strip(SplitPart(article_title, "(", 0))
                            ELSE Strip(article_title),
         article_name |-> IF open /\ close
                          THEN Strip(SelectSeq(SplitPart(article_title, "(", 1),
                                               LAMBDA c : c # ")"))
                          ELSE << >>]

\* ", ".join(keywords) if keywords else ""
JoinKeywords(keywords) == JoinTexts(keywords, 1, <<",", " ">>, << >>)

\* The document of a nested subsection
NestedDocument(article, subsection, nested) ==
    Doc(nested.title \o <<"\n">> \o nested.content
            \o (IF nested.items # << >>
                THEN <<"\n">> \o JoinTexts(nested.items, 1, <<"\n">>, <<"-", " ">>)
                ELSE << >>),
        ArticleMetadata(article) @@
        [type |-> <<"n", "e", "s", "t", "e", "d", "_", "s", "u", "b",
                    "s", "e", "c", "t", "i", "o", "n">>,
         parent_subsection_id |-> subsection.id,
         parent_subsection_title |-> subsection.title,
         subsection_id |-> nested.id,
         subsection_title |-> nested.title,
         content |-> nested.content,
         keywords |-> JoinKeywords(nested.keywords)])

\* full_content of a subsection: its content, its items and, of every nested
\* subsection from the i-th on, the title, the content and the items
RECURSIVE NestedContent(_, _)
NestedContent(nested_subsections, i) ==
    IF i > Len(nested_subsections) THEN << >>
    ELSE <<"\n", "\n">> \o nested_subsections[i].title \o <<":", "\n">>
         \o nested_subsections[i].content
         \o (IF nested_subsections[i].items # << >>
             THEN <<"\n">> \o JoinTexts(nested_subsections[i].items, 1, <<"\n">>,
                                        <<" ", " ", "-", " ">>)
             ELSE << >>)
         \o NestedContent(nested_subsections, i + 1)

\* The documents of a subsection: those of its nested subsections, then its own
SubsectionDocuments(article, subsection) ==
    LET full_content ==
            subsection.content
            \o (IF subsection.items # << >>
                THEN <<"\n", "\n", "se", "bu", " ", "nae", "yong", ":", "\n">>
                     \o JoinTexts(subsection.items, 1, <<"\n">>, <<"-", " ">>)
                ELSE << >>)
            \o NestedContent(subsection.subsections, 1)
    IN  [i \in DOMAIN subsection.subsections |->
            NestedDocument(article, subsection, subsection.subsections[i])]
        \o <<Doc(subsection.title \o <<"\n">> \o full_content,
                 ArticleMetadata(article) @@
                 [type |-> <<"s", "u", "b", "s", "e", "c", "t", "i", "o", "n">>,
                  subsection_id |-> subsection.id,
                  subsection_title |-> subsection.title,
                  content |-> full_content,
                  keywords |-> JoinKeywords(subsection.keywords)])>>

\* The documents of the subsections of an article from the i-th on
RECURSIVE SubsectionsFrom(_, _)
SubsectionsFrom(article, i) ==
    IF i > Len(article.subsections) THEN << >>
    ELSE SubsectionDocuments(article, article.subsections[i])
         \o SubsectionsFrom(article, i + 1)

\* The documents of the articles from the i-th on: the article's own, then
\* those of its subsections
RECURSIVE ArticlesFrom(_, _)
ArticlesFrom(articles, i) ==
    IF i > Len(articles) THEN << >>
    ELSE <<Doc(articles[i].title \o <<"\n">> \o articles[i].content,
               ArticleMetadata(articles[i]) @@
               [type |-> <<"a", "r", "t", "i", "c", "l", "e">>, content |-> articles[i].content])>>
         \o SubsectionsFrom(articles[i], 1)
         \o ArticlesFrom(articles, i + 1)

\* convert_traffic_law_to_docs
convert_traffic_law_to_docs(data_dict) == ArticlesFrom(data_dict.articles, 1)

\* load_and_convert_all_documents: the converter of a category's file
ConvertDocuments(category, data) ==
    CASE category = "term"      -> convert_term_to_docs(data)
      [] category = "precedent" -> convert_precedent_to_docs(data)
      [] category = "car_case"  -> convert_car_case_to_docs(data)
      [] category = "law"       -> convert_traffic_law_to_docs(data)

----------------------------------------------------------------------------
(* SpecFormat: a metadata file is converted, the documents are stored in the
   category's collection, and a search of the category that reads this
   collection formats one of the documents *)

MaxFileItems == 2

\* The lists of at most MaxFileItems of the items
Files(items) == UNION {[1..n -> items] : n \in 1..MaxFileItems}

TermItems ==
    {[term |-> term, desc |-> desc] :
        term \in { <<"gwa", "sil", "bi", "yul">>, <<"cha", "do">> },
        desc \in { <<"sa", "go", " ", "chaeg", "im", "ui", " ", "bi", "yul">>, <<"cha", "ryang", "i_", " ", "da", "ni", "neun", " ", "bu", "bun">> }}

PrecedentItems ==
    {[court |-> court, case_id |-> case_id, content |-> <<"sin", "ho", "wi", "ban", " ", "sa", "rye">>] :
        court \in { <<"dae", "beob", "won">>, <<"seo", "ul", "go", "deung", "beob", "won">> },
        case_id \in { <<"2", "0", "1", "9", "da", "1", "2", "3", "4", "5">>, <<"9", "2", "do", "2", "0", "7", "7">> }}

CarCaseItems ==
    {("sageon ID" :> <<"cha", "1", "-", "1">>) @@ ("gibon gwasilbiyul" :> <<"A", "7", "0", ":", "B", "3", "0">>),
     ("sageon ID" :> <<"cha", "2", "-", "1">>) @@ ("sageon jemog" :> <<"gyo", "cha", "ro", " ", "jwa", "hoe", "jeon", " ", "dae", " ",
                                                       "jig", "jin">>)
        @@ ("gibon gwasilbiyul" :> JsonNull),
     ("sageon jemog" :> <<"chu", "dol", " ", "sa", "go">>)}

LawSubsections ==
    {[id |-> <<"5", "-", "1">>, title |-> <<"je", "1", "hang">>, content |-> <<"sin", "ho", "reul", " ", "tta", "ra", "ya", " ", "han", "da">>,
      items |-> items, keywords |-> keywords, subsections |-> nested] :
        items \in {<< >>, << <<"sin", "ho", "gi">>, <<"gyeong", "chal", "gong", "mu", "won">> >>},
        keywords \in {<< >>, << <<"sin", "ho">>, <<"ji", "si">> >>},
        nested \in {<< >>,
                    <<[id |-> <<"5", "-", "1", "-", "1">>, title |-> <<"je", "1", "ho">>, content |-> <<"ye", "oe">>,
                       items |-> << <<"gin", "geub", "ja", "dong", "cha">> >>, keywords |-> << <<"gin", "geub">> >>]>>}}

LawArticles ==
    {[id |-> <<"5">>, title |-> title, content |-> <<"sin", "ho", " ", "tto", "neun", " ", "ji", "si", "e_", " ",
                                                   "tta", "reul", " ", "ui", "mu">>,
      subsections |-> subsections] :
        title \in { <<"je", "5", "jo", "(", "sin", "ho", " ", "tto", "neun", " ",
                      "ji", "si", "e_", " ", "tta", "reul", " ", "ui", "mu", ")">>, <<"je", "6", "jo">> },
        subsections \in {<< >>} \cup {<<s>> : s \in LawSubsections}}

\* What a category's metadata file may hold
FilesOf(category) ==
    CASE category = "term"      -> Files(TermItems)
      [] category = "precedent" -> Files(PrecedentItems)
      [] category = "car_case"  -> Files(CarCaseItems)
      [] category = "law"       -> {[articles |-> <<a>>] : a \in LawArticles}

InitFormat ==
    /\ Constructed
    /\ collections = [c \in {"term", "precedent", "car_case", "traffic_law_rag"} |-> {}]
    /\ source_documents = << >>
    /\ ret \in UNION {{[op |-> "file", category |-> SourceCategories[i], data |-> data] :
                          data \in FilesOf(SourceCategories[i])} :
                      i \in DOMAIN SourceCategories}

\* The indexer converts the file and stores the documents in the category's
\* collection; a search with the category that reads this collection formats
\* the i-th of them.
FormatConverted ==
    /\ ret.op = "file"
    /\ \E docs \in {ConvertDocuments(ret.category, ret.data)} :
       \E i \in DOMAIN docs :
       \E category \in {c \in Categories :
                           CollectionOf(c) = CollectionName(ret.category)} :
          ret' = [op |-> "format_metadata", source |-> ret.category,
                  category |-> category, document |-> docs[i],
                  metadata_line |-> format_metadata(docs[i].metadata, category),
                  snippet |-> Snippet(i, docs[i], category)]
    /\ UNCHANGED <<model_id, collections, search_cache, search_stats,
                   self_query_retrievers, session_chains, session_metadata,
                   total_requests, total_processing_time, now, web_vars,
                   index_vars>>

SpecFormat == InitFormat /\ [][FormatConverted]_vars

----------------------------------------------------------------------------
(* UnifiedMemoryManager (utils/memory_system.py): the sessions of the
   consumers.  Of a UnifiedMemory the fields are kept that the calls below
   read or write; general_memory and conversation_context are not touched by
   them. *)

\* self._session_timeout = timedelta(hours=24)
session_timeout_hours == 24

\* UserProfile(), made at time t
UserProfile(t) ==
    [user_id |-> None, preferred_explanation_level |-> "beginner",
     frequent_question_types |-> << >>, interaction_count |-> 0,
     common_scenarios |-> << >>, last_active |-> t]

\* UnifiedMemory(), made at time t: session_id = str(uuid.uuid4())
UnifiedMemory(uuid, t) ==
    [session_id |-> uuid, created_at |-> t, last_updated |-> t,
     messages |-> << >>, user_profile |-> UserProfile(t),
     total_interactions |-> 0, category_usage_count |-> << >>]

\* _create_new_session(user_id): the session is stored under its own new id.
\* [session_id, sessions]
create_new_session(sessions, user_id, t, uuid) ==
    [session_id |-> uuid,
     sessions |-> (uuid :> [UnifiedMemory(uuid, t) EXCEPT !.user_profile.user_id =
                               IF user_id # None THEN user_id ELSE @])
                  @@ sessions]

\* get_or_create_session(session_id, user_id): [session_id, sessions], the
\* id being the key of the session that is returned
get_or_create_session(sessions, session_id, user_id, t, uuid) ==
    IF session_id # None /\ session_id \in DOMAIN sessions
    THEN IF t - sessions[session_id].last_updated
               > session_timeout_hours * seconds_per_hour
         THEN create_new_session([s \in DOMAIN sessions \ {session_id} |-> sessions[s]],
                                 user_id, t, uuid)
         ELSE [session_id |-> session_id,
               sessions |-> [sessions EXCEPT ![session_id].last_updated = t]]
    ELSE create_new_session(sessions, user_id, t, uuid)

accident_keywords ==
    << <<"gyo", "cha", "ro">>, <<"jwa", "hoe", "jeon">>, <<"jig", "jin">>, <<"hu", "jin">>, <<"ju", "cha">>, <<"sin", "ho">>, <<"cha", "ro", "byeon", "gyeong">> >>
technical_keywords ==
    { <<"jo", "mun">>, <<"pan", "rye">>, <<"beob", "ryeong">>, <<"gyu", "jeong">>, <<"wi", "ban">>, <<"sa", "geon", "beon", "ho">>, <<"pan", "gyeol">>, <<"gwa", "sil", "bi", "yul">> }
beginner_keywords ==
    { <<"mwo">>, <<"mu", "eos">>, <<"seol", "myeong">>, <<"al", "ryeo", "jwo">>, <<"gan", "dan", "hi">>, <<"swib", "ge">> }

\* for scenario in found_scenarios: append it if it is not in the list
RECURSIVE AddScenarios(_, _, _)
AddScenarios(common_scenarios, user_input, i) ==
    IF i > Len(accident_keywords) THEN common_scenarios
    ELSE AddScenarios(
             IF /\ Contains(user_input, accident_keywords[i])
                /\ \A j \in DOMAIN common_scenarios :
                      common_scenarios[j] # accident_keywords[i]
             THEN Append(common_scenarios, accident_keywords[i])
             ELSE common_scenarios,
             user_input, i + 1)

\* _update_common_user_profile
update_common_user_profile(user_profile, category, user_input, t) ==
    LET types == Append(user_profile.frequent_question_types, category)
        level == user_profile.preferred_explanation_level
        tech_count == Cardinality({kw \in technical_keywords :
                                      Contains(Lower(user_input), kw)})
    IN  [user_profile EXCEPT
            !.interaction_count = @ + 1,
            !.last_active = t,
            !.frequent_question_types =
                IF Len(types) > 10 THEN SubSeq(types, Len(types) - 9, Len(types))
                ELSE types,
            !.common_scenarios =
                IF category = "accident" THEN AddScenarios(@, user_input, 1) ELSE @,
            !.preferred_explanation_level =
                IF tech_count > 0
                THEN IF level = "beginner" THEN "intermediate"
                     ELSE IF level = "intermediate" /\ tech_count >= 2 THEN "advanced"
                     ELSE level
                ELSE IF /\ \E kw \in beginner_keywords : Contains(Lower(user_input), kw)
                        /\ level = "advanced"
                THEN "intermediate"
                ELSE level]

\* process_any_category: what process_with_memory does for every category
\* but general.  [session_id, sessions], the id being result['session_id']
process_any_category(sessions, user_input, category, session_id, user_id, t, uuid) ==
    LET got == get_or_create_session(sessions, session_id, user_id, t, uuid)
        session == got.sessions[got.session_id]
        used == session.category_usage_count
    IN  [session_id |-> session.session_id,
         sessions |->
            [got.sessions EXCEPT ![got.session_id] =
                [session EXCEPT
                    !.messages = Append(@, [sender |-> "user", content |-> user_input,
                                            category |-> category]),
                    !.total_interactions = @ + 1,
                    !.category_usage_count =
                        (category :> ((IF category \in DOMAIN used THEN used[category]
                                       ELSE 0) + 1)) @@ used,
                    !.user_profile = update_common_user_profile(@, category,
                                                                user_input, t),
                    !.last_updated = t]]]

\* process_with_memory(user_input, category, session_id), category # general
process_with_memory(sessions, user_input, category, session_id, t, uuid) ==
    process_any_category(sessions, user_input, category, session_id, None, t, uuid)

\* record_response, by record_ai_response
record_response(sessions, session_id, response, category, t) ==
    IF session_id \in DOMAIN sessions
    THEN [sessions EXCEPT
             ![session_id].messages = Append(@, [sender |-> "bot", content |-> response,
                                                 category |-> category]),
             ![session_id].last_updated = t]
    ELSE sessions

\* get_session_summary, by get_session_insights: None for an unknown id
NoSummary == [session_id |-> None, total_interactions |-> 0, message_count |-> 0]
get_session_summary(sessions, session_id) ==
    IF session_id \notin DOMAIN sessions THEN NoSummary
    ELSE [session_id |-> session_id,
          total_interactions |-> sessions[session_id].total_interactions,
          message_count |-> Len(sessions[session_id].messages)]

----------------------------------------------------------------------------
(* SpecMemorySystem: callers that pass a session id of their own, as the
   usage example and the consumer do, or an id a call has returned *)

MaxUuids == 2
MaxSessionMessages == 2

UuidNames == <<"uuid-1", "uuid-2", "uuid-3", "uuid-4">>
Uuids == {UuidNames[n] : n \in 1..MaxUuids}
CallerIds == {"abc123"}

\* The turns: a query and the category the classifier gave it
MemoryTurns == {[user_input |-> QueryAccident, category |-> "accident"],
                [user_input |-> QueryTerm, category |-> "term"]}

\* process_with_memory(user_input, category, session_id=...)
ProcessWithMemory ==
    /\ \A s \in DOMAIN _sessions : Len(_sessions[s].messages) < MaxSessionMessages
    /\ \E turn \in MemoryTurns, session_id \in CallerIds \cup DOMAIN _sessions :
       \E uuid \in Uuids \ DOMAIN _sessions :
       \E out \in {process_with_memory(_sessions, turn.user_input, turn.category,
                                       session_id, now, uuid)} :
          /\ _sessions' = out.sessions
          /\ ret' = [op |-> "process_with_memory", session_id |-> session_id,
                     known |-> session_id \in DOMAIN _sessions,
                     result |-> [session_id |-> out.session_id,
                                 category |-> turn.category]]
    /\ UNCHANGED <<model_id, collections, search_cache, search_stats,
                   self_query_retrievers, session_chains, session_metadata,
                   total_requests, total_processing_time, now, chat_messages,
                   requests, index_vars>>

\* record_ai_response(memory_info['session_id'], ai_response, category), or
\* with the caller's own id
RecordAiResponse ==
    /\ \E session_id \in CallerIds \cup DOMAIN _sessions, response \in LLMAnswers :
          /\ session_id \in DOMAIN _sessions =>
                Len(_sessions[session_id].messages) < MaxSessionMessages
          /\ _sessions' = record_response(_sessions, session_id, response,
                                          "accident", now)
          /\ ret' = [op |-> "record_ai_response", session_id |-> session_id]
    /\ UNCHANGED <<model_id, collections, search_cache, search_stats,
                   self_query_retrievers, session_chains, session_metadata,
                   total_requests, total_processing_time, now, chat_messages,
                   requests, index_vars>>

\* get_session_insights(session_id)
GetSessionInsights ==
    /\ \E session_id \in CallerIds \cup DOMAIN _sessions :
          ret' = [op |-> "get_session_insights", session_id |-> session_id,
                  result |-> get_session_summary(_sessions, session_id)]
    /\ UNCHANGED <<model_id, collections, search_cache, search_stats,
                   self_query_retrievers, session_chains, session_metadata,
                   total_requests, total_processing_time, now, web_vars, index_vars>>

NextMemorySystem ==
    \/ ProcessWithMemory
    \/ RecordAiResponse
    \/ GetSessionInsights
    \/ Tick(session_timeout_hours * seconds_per_hour + 1,
            session_timeout_hours * seconds_per_hour + 1)

SpecMemorySystem == Init /\ [][NextMemorySystem]_vars

----------------------------------------------------------------------------
(* SpecHandles: get_vector_db calls that run at the same time on the
   singleton VectorDBManager, which takes no lock.  requests[i] is the i-th
   thread; a handle is an object, told apart by the thread that made it. *)

\* The Chroma object that thread n constructed for the collection
ChromaHandle(collection_name, n) ==
    [collection_name |-> collection_name, handle |-> n]

HandleCollections == {"precedent", "car_case"}

\* A thread enters get_vector_db(collection_name).
GetVectorDbCall(names, max_threads) ==
    /\ Len(requests) < max_threads
    /\ \E collection_name \in names :
          requests' = Append(requests,
                             [pc |-> "called", collection_name |-> collection_name,
                              constructed |-> FALSE,
                              vectorstore |-> ChromaHandle(None, 0),
                              result |-> ChromaHandle(None, 0)])
    /\ ret' = [op |-> "get_vector_db", thread |-> Len(requests) + 1]
    /\ UNCHANGED <<model_id, collections, search_cache, search_stats,
                   self_query_retrievers, session_chains, session_metadata,
                   total_requests, total_processing_time, now, chat_messages,
                   _sessions, index_vars>>

\* if collection_name in self._collection_cache:
\*     return self._collection_cache[collection_name]
GetVectorDbLookup ==
    /\ \E i \in DOMAIN requests :
          /\ requests[i].pc = "called"
          /\ requests' =
                IF requests[i].collection_name \in DOMAIN collection_cache
                THEN [requests EXCEPT
                         ![i].pc = "done",
                         ![i].result = collection_cache[requests[i].collection_name]]
                ELSE [requests EXCEPT ![i].pc = "load"]
          /\ ret' = [op |-> "get_vector_db", thread |-> i]
    /\ UNCHANGED <<model_id, collections, search_cache, search_stats,
                   self_query_retrievers, session_chains, session_metadata,
                   total_requests, total_processing_time, now, chat_messages,
                   _sessions, index_vars>>

\* vectorstore = Chroma(persist_directory=..., collection_name=collection_name)
GetVectorDbLoad ==
    /\ \E i \in DOMAIN requests :
          /\ requests[i].pc = "load"
          /\ requests' = [requests EXCEPT
                             ![i].pc = "loaded",
                             ![i].constructed = TRUE,
                             ![i].vectorstore =
                                 ChromaHandle(requests[i].collection_name, i)]
          /\ ret' = [op |-> "get_vector_db", thread |-> i]
    /\ UNCHANGED <<model_id, collections, search_cache, search_stats,
                   self_query_retrievers, session_chains, session_metadata,
                   total_requests, total_processing_time, now, chat_messages,
                   _sessions, index_vars>>

\* if collection_count > 0: the handle is cached and returned; else None
GetVectorDbStore ==
    /\ \E i \in DOMAIN requests :
       \E collection_name \in {requests[i].collection_name} :
          /\ requests[i].pc = "loaded"
          /\ IF /\ collection_name \in DOMAIN collections
                /\ Cardinality(collections[collection_name]) > 0
             THEN /\ collection_cache' = (collection_name :> requests[i].vectorstore)
                                            @@ collection_cache
                  /\ requests' = [requests EXCEPT
                                     ![i].pc = "done",
                                     ![i].result = requests[i].vectorstore]
             ELSE /\ UNCHANGED collection_cache
                  /\ requests' = [requests EXCEPT ![i].pc = "done"]
          /\ ret' = [op |-> "get_vector_db", thread |-> i]
    /\ UNCHANGED <<model_id, collections, search_cache, search_stats,
                   self_query_retrievers, session_chains, session_metadata,
                   total_requests, total_processing_time, now, chat_messages,
                   _sessions, source_documents>>

NextHandles ==
    \/ GetVectorDbCall(HandleCollections, MaxThreads)
    \/ GetVectorDbLookup
    \/ GetVectorDbLoad
    \/ GetVectorDbStore

SpecHandles == Init /\ [][NextHandles]_vars

----------------------------------------------------------------------------
(* Properties *)

\* C1: in every call of process_query the chain's predict, and with it the
\* chat model, is called at most once; when that one call fails it is not
\* repeated and the returned response is the canned fallback of the category.
C1_OneSynthesisCall ==
    ret.op = "process_query" =>
        /\ ret.llm_calls <= 1
        /\ ret.llm_failed =>
               /\ ret.llm_calls = 1
               /\ ret.result.response =
                      generate_quick_fallback_response(ret.user_input, ret.category)

\* C1's case: a turn whose one call of the chat model failed.
C1_Witness ==
    /\ ret.op = "process_query"
    /\ ret.llm_failed
    /\ ret.llm_calls = 1
    /\ ret.result.response # << >>

\* The fixed message of a citation that is not in the store:
\* 정확히 일치하는 판례를 찾을 수 없습니다
NotFoundMessage == <<"jeong", "hwag", "hi", " ", "il", "chi", "ha", "neun", " ", "pan",
                     "rye", "reul", " ", "chaj", "eul", " ", "su", " ", "eobs", "seub",
                     "ni", "da">>

\* C2: when search_context returned the EXACT_PRECEDENT_NOT_FOUND sentinel,
\* process_query answers with the fixed not-found message, calls the chat model
\* zero times, keeps the sentinel out of the prompt's input and reports
\* context_used = false.
C2_SentinelShortCircuit ==
    (ret.op = "process_query" /\ StartsWith(ret.context, SentinelPrefix)
        /\ ~ret.result.error) =>
        /\ ret.llm_calls = 0
        /\ ~Contains(ret.llm_input, SentinelPrefix)
        /\ ret.result.context_used = FALSE
        /\ Contains(ret.result.response, NotFoundMessage)

\* C3: process_query never lets an exception leave it: whatever fails, it
\* returns a dict with a category of the five and a response, and the
\* response of a fallback or error turn is not empty.
C3_NeverRaises ==
    ret.op = "process_query" =>
        /\ ~ret.raised
        /\ ret.result.category \in Categories
        /\ (ret.llm_failed \/ ret.result.error) => ret.result.response # << >>

\* C3's case: the session store raised inside the try block and the caller
\* got the error response.
C3_Witness ==
    /\ ret.op = "process_query"
    /\ ret.result.error
    /\ ret.result.response = ErrorResponseText
    /\ ~ret.raised

\* No document of docs is an exact or a partial match of the citation.
NoCandidateMatches(case_number, docs) ==
    \A i \in 1..Len(docs) :
        LET doc_case_id == Strip(MetaGet(docs[i].metadata, "case_id"))
        IN  /\ ~is_exact_case_match(case_number, doc_case_id)
            /\ ~is_partial_case_match(case_number, doc_case_id)

\* C4: a search_context call for category precedent whose query holds a
\* citation that no candidate of the store matches, exactly or partially,
\* returns the sentinel of that citation and leaves the cache, the search
\* counters and the self-query retrievers as they were.
C4_GateBlocksRetrieval ==
    [][(ret'.op = "search_context" /\ ret'.category = "precedent") =>
          \A case_number \in {extract_case_number(ret'.query)} :
              (/\ case_number # << >>
               /\ NoCandidateMatches(case_number, ret'.gate))
              => /\ ret'.context = Sentinel(case_number)
                 /\ search_cache' = search_cache
                 /\ search_stats' = search_stats
                 /\ self_query_retrievers' = self_query_retrievers]_vars

\* C4's case: the store returned candidates for the citation, none matched,
\* and the sentinel came back.
C4_Witness ==
    /\ ret.op = "search_context"
    /\ ret.category = "precedent"
    /\ ret.gate # << >>
    /\ NoCandidateMatches(extract_case_number(ret.query), ret.gate)
    /\ ret.context = Sentinel(extract_case_number(ret.query))

\* C5: classify returns one of the five categories and raises nothing, for
\* every query and every outcome of the remote model.
C5_ClassifyTotal ==
    ret.op = "classify" => ret.category \in Categories

\* C5's cases: the remote model was called and failed, and classify returned
\* a category.
C5_Witness ==
    /\ ret.op = "classify"
    /\ CallsFinetuned(ret.user_input, model_id)
    /\ ret.remote.kind = "error"
    /\ ret.category = "general"

\* C6: the messages a session's memory stores are at most 2 * k = 16.
C6_StoredHistoryAtMost16 ==
    \A s \in DOMAIN session_chains :
        memory_length(session_chains, session_metadata, s) <= 2 * memory_k

\* C7: the search cache holds at most 100 entries.
C7_CacheAtMost100 ==
    Cardinality(DOMAIN search_cache) <= cache_capacity

\* C7's case: the cache is full and a search with a non-empty result for a
\* new key was not stored.
C7_Witness ==
    /\ Cardinality(DOMAIN search_cache) = cache_capacity
    /\ ret.op = "search_context"
    /\ ret.context # << >>
    /\ CacheKey(ret.category, ret.query) \notin DOMAIN search_cache

\* The positions of a context where a numbered snippet "[i] " starts a line.
SnippetStarts(context) ==
    {i \in 1..Len(context) :
        /\ context[i] = "["
        /\ i = 1 \/ context[i - 1] = "\n"
        /\ i + 3 <= Len(context)
        /\ IsDigit(context[i + 1])
        /\ context[i + 2] = "]"
        /\ context[i + 3] = " "}

\* The number of characters of document text of the snippet that starts at i:
\* those up to the line's end (the documents' texts have one line).
SnippetTextLen(context, i) ==
    LET ends == {j \in (i + 4)..Len(context) : context[j] = "\n"} \cup {Len(context) + 1}
        first == CHOOSE j \in ends : \A e \in ends : j <= e
    IN  first - (i + 4)

\* C8: with max_docs = 2 a context that is not the sentinel holds at most 2
\* numbered snippets, each with at most 200 characters of document text.
C8_ContextWithinMaxDocs ==
    (ret.op = "search_context" /\ ret.max_docs = default_max_docs
        /\ ~StartsWith(ret.context, SentinelPrefix)) =>
        /\ Cardinality(SnippetStarts(ret.context)) <= ret.max_docs
        /\ \A i \in SnippetStarts(ret.context) :
               SnippetTextLen(ret.context, i) <= snippet_chars

\* C9: after a turn that returned a response of the bot (of the chat model or
\* the canned fallback), the last two messages of the session's memory are the
\* turn's query and the turn's returned response.
C9_LastPairIsTheTurn ==
    (ret.op = "process_query" /\ ~ret.result.error) =>
        LET messages == Messages(session_chains[ret.session_id])
        IN  /\ Len(messages) >= 2
            /\ messages[Len(messages) - 1] =
                   [role |-> "Human", content |-> ret.user_input]
            /\ messages[Len(messages)] =
                   [role |-> "AI", content |-> ret.result.response]

\* C10: a turn on a session whose previous category c is one of accident,
\* precedent, law, term, with a query that the keyword rule does not classify
\* with high confidence and that holds a context-carry keyword, is classified
\* c.
C10_CarriesPreviousCategory ==
    [][(/\ ret'.op = "process_query"
        /\ ret'.session_id \in DOMAIN session_metadata
        /\ session_metadata[ret'.session_id].primary_category
               \in {"accident", "precedent", "law", "term"}
        /\ classify(ret'.user_input, FALSE, RemoteError) = "general"
        /\ TierScore(Lower(ret'.user_input),
                     context_keywords(session_metadata[ret'.session_id].primary_category),
                     2) >= 2)
       => ret'.category = session_metadata[ret'.session_id].primary_category]_vars

\* C11: classify, as process_query calls it, gives term for the query
\* 과실비율이란 무엇인가요?
C11_FaultRatioQueryIsTerm ==
    (ret.op = "classify" /\ ret.user_input = QueryTerm) => ret.category = "term"

\* C14: when the chat model call of a turn failed, the returned dict holds the
\* canned fallback as response and its error flag is set.
C14_FallbackSetsErrorFlag ==
    (ret.op = "process_query" /\ ret.llm_failed) =>
        /\ ret.result.response =
               generate_quick_fallback_response(ret.user_input, ret.category)
        /\ ret.result.error = TRUE

\* No row of the session of request r was created between r's two rows.
AdjacentRows(r) ==
    \A i \in (requests[r].user_row + 1)..(requests[r].bot_row - 1) :
        chat_messages[i].session_id # requests[r].session_id

\* C12: the turns of one session are serialized in the order of arrival: in
\* the stored messages of the session every bot message directly follows the
\* user message of its own request, and the rows of an earlier request lie
\* before those of a later one.
C12_TurnsSerialized ==
    \A r \in DOMAIN requests :
        requests[r].bot_row # 0 =>
            /\ AdjacentRows(r)
            /\ \A later \in DOMAIN requests :
                  (/\ later > r
                   /\ requests[later].session_id = requests[r].session_id
                   /\ requests[later].user_row # 0)
                  => requests[r].bot_row < requests[later].user_row

\* C13: a turn whose user message or bot message could not be stored is
\* still answered with the bot's response of the turn, not with an error.
C13_StoreFailureNotSurfaced ==
    \A r \in DOMAIN requests :
        (requests[r].pc = "done" /\ requests[r].user_message # << >>) =>
            /\ requests[r].status = 200
            /\ requests[r].result.category \in Categories
            /\ requests[r].body = requests[r].result.response

\* C16: clear_session_memory of a session that has a chain empties the
\* chain's messages and zeroes total_interactions, categories_used and
\* total_processing_time of its metadata; the session stays, with created_at,
\* primary_category and the chain's prompt as they were; every other session
\* and the stored messages are as they were.  For an id without a chain
\* nothing changes and no session is made.
C16_ClearResetsOneSession ==
    [][ret'.op = "clear_session_memory" =>
          \A s \in {ret'.session_id} :
             /\ chat_messages' = chat_messages
             /\ DOMAIN session_chains' = DOMAIN session_chains
             /\ DOMAIN session_metadata' = DOMAIN session_metadata
             /\ \A other \in DOMAIN session_chains \ {s} :
                   session_chains'[other] = session_chains[other]
             /\ \A other \in DOMAIN session_metadata \ {s} :
                   session_metadata'[other] = session_metadata[other]
             /\ s \in DOMAIN session_chains =>
                   /\ Messages(session_chains'[s]) = << >>
                   /\ session_chains'[s].prompt = session_chains[s].prompt
                   /\ session_metadata'[s] =
                          [session_metadata[s] EXCEPT !.total_interactions = 0,
                                                      !.categories_used = << >>,
                                                      !.total_processing_time = 0]
                   /\ session_metadata'[s].created_at = session_metadata[s].created_at
                   /\ session_metadata'[s].primary_category =
                          session_metadata[s].primary_category]_vars

\* C16's case: a session that had a turn with an answer was cleared, while
\* another session keeps its messages and the table keeps the rows of both.
C16_Witness ==
    /\ ret.op = "clear_session_memory"
    /\ ret.session_id \in DOMAIN session_chains
    /\ Messages(session_chains[ret.session_id]) = << >>
    /\ session_metadata[ret.session_id].total_interactions = 0
    /\ \E i \in DOMAIN chat_messages :
          /\ chat_messages[i].session_id = ret.session_id
          /\ chat_messages[i].sender = "bot"
    /\ \E other \in DOMAIN session_chains \ {ret.session_id} :
          Messages(session_chains[other]) # << >>

\* C19: a request with an empty message is a turn of category general that
\* is answered with the canned general response.
C19_EmptyQueryCannedGeneral ==
    \A r \in DOMAIN requests :
        (requests[r].pc = "done" /\ requests[r].user_message = << >>) =>
            /\ requests[r].result.category = "general"
            /\ requests[r].body =
                   generate_quick_fallback_response(requests[r].user_message, "general")

\* C15: cleanup_old_sessions removes the chain and the metadata of exactly the
\* sessions whose last activity is more than 24 hours ago and leaves every
\* other session as it was; a turn on a session id without a chain, an
\* evicted one included, is rendered with an empty history and leaves the
\* session with this one interaction counted.
C15_SweepEvictsIdleSessions ==
    [][/\ ret'.op = "cleanup_old_sessions" =>
             \A idle \in {{s \in DOMAIN session_metadata :
                             now - session_metadata[s].last_activity > 24 * 3600}} :
                /\ ret'.expired = idle
                /\ DOMAIN session_chains' = DOMAIN session_chains \ idle
                /\ DOMAIN session_metadata' = DOMAIN session_metadata \ idle
                /\ \A s \in DOMAIN session_chains' :
                      session_chains'[s] = session_chains[s]
                /\ \A s \in DOMAIN session_metadata' :
                      session_metadata'[s] = session_metadata[s]
       /\ (/\ ret'.op = "process_query"
           /\ ~ret'.result.error
           /\ ret'.session_id \notin DOMAIN session_chains) =>
             /\ ret'.history = << >>
             /\ session_metadata'[ret'.session_id].created_at = now
             /\ session_metadata'[ret'.session_id].total_interactions = 1
             /\ session_metadata'[ret'.session_id].total_processing_time = TurnSeconds
             /\ Len(Messages(session_chains'[ret'.session_id])) \in {0, 2}]_vars

\* C15's case: a sweep evicted one session and kept the other, which was
\* active within the last day.
C15_Witness ==
    /\ ret.op = "cleanup_old_sessions"
    /\ ret.expired # {}
    /\ DOMAIN session_chains # {}
    /\ DOMAIN session_chains = DOMAIN session_metadata

\* C18: _is_exact_case_match is reflexive on citations, which are strings
\* that are not empty, and symmetric on all strings: a matches a, and a
\* matches b exactly when b matches a.
C18_ExactMatchReflexiveSymmetric ==
    ret.op = "is_exact_case_match" =>
        /\ (ret.input_case = ret.db_case /\ ret.input_case # << >>) => ret.result
        /\ ret.result = is_exact_case_match(ret.db_case, ret.input_case)

\* C18's case: two different strings that match, the longer one holding the
\* shorter one.
C18_Witness ==
    /\ ret.op = "is_exact_case_match"
    /\ ret.result
    /\ Len(ret.input_case) < Len(ret.db_case)
    /\ is_exact_case_match(ret.db_case, ret.input_case)

\* C20: a search_context call whose category has no collection or an empty
\* one returns the empty string, whatever the category and the query.
C20_EmptyCollectionGivesNoContext ==
    (/\ ret.op = "search_context"
     /\ \/ CollectionOf(ret.category) \notin DOMAIN collections
        \/ collections[CollectionOf(ret.category)] = {})
    => ret.context = << >>

C21_FullCacheStoresNewResult ==
    (/\ ret.op = "search_context"
     /\ ret.context # << >>
     /\ Cardinality(DOMAIN search_cache) >= 100)
    => /\ CacheKey(ret.category, ret.query) \in DOMAIN search_cache
       /\ search_cache[CacheKey(ret.category, ret.query)] = ret.context

\* C22: when a keyword matched but the keyword stage is not decisive (the
\* best score is below 4 or its confidence below 0.65), the fine-tuned model
\* is configured and the query is longer than 10 characters, classify asks
\* the fine-tuned model and returns its label if the label is a category.
C22_IndecisiveAsksFinetuned ==
    (/\ ret.op = "classify"
     /\ model_id
     /\ Len(Strip(ret.user_input)) > 10
     /\ ret.remote.kind = "answer"
     /\ \E c \in Categories : CategoryText(c) = Lower(Strip(ret.remote.content)))
    => \A category_scores \in {calculate_keyword_scores(Lower(ret.user_input))} :
          (/\ DOMAIN category_scores # {}
           /\ \/ category_scores[BestCategory(category_scores)] < 4
              \/ ~ConfidenceAtLeast(category_scores[BestCategory(category_scores)],
                                    SumScores(category_scores, 1)))
          => /\ CallsFinetuned(ret.user_input, model_id)
             /\ CategoryText(ret.category) = Lower(Strip(ret.remote.content))


\* C23: _is_exact_case_match answers True exactly when the two citations
\* are both given and their cleaned forms (lower case, whitespace removed)
\* are equal; a cleaned form that is only a part of the other one does not
\* match.
C23_ExactMatchIffNormalizedEqual ==
    ret.op = "is_exact_case_match" =>
        (ret.result <=> /\ ret.input_case # << >>
                        /\ ret.db_case # << >>
                        /\ RemoveSpaces(Lower(ret.input_case))
                             = RemoveSpaces(Lower(ret.db_case)))

\* C26: after a run of the indexer with force_rebuild that returned, the
\* collection of every category that has source documents holds exactly the
\* current source documents, whatever it held before the run.
C26_ForceRebuildTakesCurrentSources ==
    (/\ ret.op = "initialize_all_vector_dbs"
     /\ ret.force_rebuild
     /\ ~ret.raised)
    => \A i \in DOMAIN SourceCategories :
          \A docs \in {source_documents[SourceCategories[i]]} :
             docs # << >> =>
                {[page_content |-> d.page_content, metadata |-> d.metadata] :
                    d \in collections[CollectionName(SourceCategories[i])]}
                  = {[page_content |-> docs[k].page_content,
                      metadata |-> docs[k].metadata] : k \in DOMAIN docs}

\* C30: in every state the four operations of the session manager reach, the
\* session ids that have a conversation chain are the session ids that have
\* metadata.
C30_ChainsAndMetadataSameSessions ==
    DOMAIN session_chains = DOMAIN session_metadata

\* C30's case: a sweep has removed one session, chain and metadata, and has
\* left the other one, whose interactions are counted.
C30_Witness ==
    /\ ret.op = "cleanup_old_sessions"
    /\ ret.expired # {}
    /\ \E s \in DOMAIN session_chains :
          /\ s \in DOMAIN session_metadata
          /\ session_metadata[s].total_interactions > 0

\* C24: when all the turns that ran at the same time on one session id have
\* returned an answer, exactly one of them has created the session and the
\* session's interaction count is the number of the turns.
C24_ConcurrentTurnsAllCounted ==
    (/\ Len(requests) >= 2
     /\ \A i \in DOMAIN requests :
           /\ requests[i].pc = "done"
           /\ ~requests[i].result.error
           /\ requests[i].session_id = requests[1].session_id)
    => /\ Cardinality({i \in DOMAIN requests : requests[i].created}) = 1
       /\ session_metadata[requests[1].session_id].total_interactions
             = Len(requests)

\* C29: the prompt template a turn's chain.predict renders is the template
\* of the turn's own category, whatever the other turns of the session do in
\* the meantime.
C29_PromptOfOwnCategory ==
    \A i \in DOMAIN requests :
       requests[i].pc \in {"predicted", "stats_read", "done"}
          => requests[i].prompt \in {"none", requests[i].category}

\* C27: for each of the four categories, the metadata line that is formatted
\* for a document the DocumentProcessor made of the category's file is not
\* empty.
C27_ConvertedDocumentHasMetadataLine ==
    ret.op = "format_metadata" => ret.metadata_line # << >>

\* C28: after process_with_memory with a session id of the caller that no
\* session had, the id names the session of this turn: get_session_insights
\* of the id gives that session, with the turn counted, and a second turn
\* with the id is added to the same session.
C28_CallerIdFindsItsSession ==
    (/\ ret.op = "process_with_memory"
     /\ ret.session_id \in CallerIds
     /\ ~ret.known)
    => /\ get_session_summary(_sessions, ret.session_id).session_id = ret.session_id
       /\ get_session_summary(_sessions, ret.session_id).message_count >= 1
       /\ ret.result.session_id = ret.session_id
       /\ \A uuid \in Uuids \ DOMAIN _sessions :
             process_with_memory(_sessions, QueryAccident, "accident",
                                 ret.session_id, now, uuid).session_id
                = ret.result.session_id

\* C25: whatever the interleaving of the get_vector_db calls, at most one
\* handle is constructed for a collection that holds documents, and all the
\* calls for it that have returned have returned the same handle.
C25_OneHandlePerCollection ==
    \A collection_name \in DOMAIN collections :
       collections[collection_name] # {} =>
          /\ Cardinality({i \in DOMAIN requests :
                             /\ requests[i].collection_name = collection_name
                             /\ requests[i].constructed}) <= 1
          /\ \A i, j \in DOMAIN requests :
                (/\ requests[i].collection_name = collection_name
                 /\ requests[j].collection_name = collection_name
                 /\ requests[i].pc = "done"
                 /\ requests[j].pc = "done")
                => requests[i].result = requests[j].result
====
